---- MODULE Spec2Model ----
(***************************************************************************)
(* Verification model of the dynamic-template polyfill                     *)
(* (docs/polyfill.js): the node-range reconciler                           *)
(* (DynamicTemplateNodeRangePartImpl.replaceWith over NodeRangeImpl), and  *)
(* the fragment scanner, template compiler and instance materializer       *)
(* (document.createDynamicTemplate, DynamicDocumentTemplateImpl), and the  *)
(* parts of the instances (DynamicTemplateAttributePartImpl,               *)
(* DynamicTemplateNodeRangePartImpl, LiveRootNodeListImpl).                *)
(***************************************************************************)
EXTENDS Integers, Sequences, FiniteSets, TLC

VARIABLES
    childNodes,     \* host tree: parent name -> sequence of child nodes
    phase,          \* "called" when a replaceWith call has just returned, else "idle"
    lastValues,     \* the arguments of the last replaceWith call
    prevChildNodes, \* the host tree as it was when the last call started
    ops,            \* host-tree operations performed by the last call, in order
    error,          \* how the last call ended: "none" or the class of the error
    repeated,       \* the last call repeated the call before it
    htmlFragments,  \* the arguments of createDynamicTemplate
    status,         \* how far the call of createDynamicTemplate and instantiate has come
    thrown,         \* the error createDynamicTemplate or instantiate threw, or "none"
    thrownAt,       \* the position that the message of the error names, or -1
    isSvg,          \* the namespace detected for the markup
    fragmentIndex,  \* index of the fragment under the scanner, from 0
    fragment,       \* the fragment under the scanner, with the markers put into it so far
    currentPosition,            \* the scanner's cursor in the fragment
    isInsideElement,            \* the cursor is inside a tag
    isInsideComment,            \* the cursor is inside a comment
    currentDynamicAttributes,   \* tokens queued for the tag the cursor is in
    processedFragments,         \* the fragments scanned so far, with their markers
    parsedTemplate, \* the content of the compiled template
    templates,      \* the templates createDynamicTemplate returned for htmlFragments, by identity
    scannerRuns,    \* how often the fragments were scanned
    parserRuns,     \* how often the host's markup parser ran
    clones,         \* the document fragments that cloneNode made, by identity (from 1)
    instances,      \* the instances that instantiate returned, in order
    invocations,    \* the calls of processors, in order
    operation,      \* the last operation of the caller on a part, and the instance before it
    operations      \* how many operations on parts the caller made

rvars == <<childNodes, phase, lastValues, prevChildNodes, ops, error, repeated>>

svars == <<htmlFragments, status, thrown, thrownAt, isSvg, fragmentIndex, fragment, currentPosition,
           isInsideElement, isInsideComment, currentDynamicAttributes,
           processedFragments, parsedTemplate, templates, scannerRuns, parserRuns,
           clones, instances, invocations, operation, operations>>

\* the state of the instances and of the caller's operations on them
ivars == <<clones, instances, invocations, operation, operations>>

vars == <<rvars, svars>>

\* the caller has made no operation on a part
NoOperation ==
    [kind |-> "none", instance |-> 0, part |-> 0, values |-> <<>>, error |-> "none",
     before |-> [tree |-> <<>>, removedAttributes |-> {}, error |-> "none"]]

\* no call of createDynamicTemplate
ScannerIdle ==
    /\ htmlFragments = <<>>
    /\ status = "idle"
    /\ thrown = "none"
    /\ thrownAt = -1
    /\ isSvg = FALSE
    /\ fragmentIndex = 0
    /\ fragment = <<>>
    /\ currentPosition = 0
    /\ isInsideElement = FALSE
    /\ isInsideComment = FALSE
    /\ currentDynamicAttributes = <<>>
    /\ processedFragments = <<>>
    /\ parsedTemplate = <<>>
    /\ templates = <<>>
    /\ scannerRuns = 0
    /\ parserRuns = 0
    /\ clones = <<>>
    /\ instances = <<>>
    /\ invocations = <<>>
    /\ operation = NoOperation
    /\ operations = 0

(***************************************************************************)
(* Bounds of the model.                                                    *)
(***************************************************************************)
\* longest argument list of one replaceWith call (the rotation lists aside)
MaxValues == 2
\* most top-level nodes of the markup handed to createDynamicTemplate
MaxNodes == 2
\* most placeholders of the markup handed to createDynamicTemplate
MaxHoles == 2
\* most calls of createDynamicTemplate on one fragment sequence
MaxCalls == 2
\* most instances made of one template
MaxInstances == 2
\* most operations of the caller on the parts of the instances
MaxOperations == 2

(***************************************************************************)
(* Host tree nodes.  A node is an identity (nodeType, id) with its         *)
(* nodeValue; the engine never changes the nodeValue of a node.            *)
(***************************************************************************)
TEXT_NODE == "text"
ELEMENT_NODE == "element"
COMMENT_NODE == "comment"

NULL == [nodeType |-> "null", nodeValue |-> "", id |-> 0]

TextNode(s, k) == [nodeType |-> TEXT_NODE, nodeValue |-> s, id |-> k]

ElementNode(k) == [nodeType |-> ELEMENT_NODE, nodeValue |-> "", id |-> k]

CommentNode(k) == [nodeType |-> COMMENT_NODE, nodeValue |-> "", id |-> k]

\* the strings the caller passes in argument lists of any shape
Strings == {"a", "b"}

\* the strings of the lists "a","b","c" in each of their orders
RotationStrings == {"a", "b", "c"}

\* the text of a value that is not a string, as document.createTextNode sees it
StringOf(v) == IF v.kind = "string" THEN v.str ELSE IF v.num = 5 THEN "5" ELSE "NaN"

\* nodes the caller created and holds: an element, and a text node "a"
callerElement == ElementNode(1)

callerText == TextNode("a", 0)

\* an element that is a sibling of the span in the instance markup
siblingElement == ElementNode(2)

\* nodes that code outside the engine made and holds
outsideElement == ElementNode(3)

outsideText == TextNode("b", 8)

Parents == {"host"}

\* the two boundary comments of the node range of the modelled part
nodes == [startingBoundary |-> CommentNode(1), endingBoundary |-> CommentNode(2)]

(***************************************************************************)
(* Values handed to replaceWith: a string, a node, or (against the         *)
(* declared type) a number.                                                *)
(***************************************************************************)
StringValue(s) == [kind |-> "string", str |-> s, num |-> 0, node |-> NULL]

NodeValue(n) == [kind |-> "node", str |-> "", num |-> 0, node |-> n]

NumberValue(i) == [kind |-> "number", str |-> "", num |-> i, node |-> NULL]

ValueDomain ==
    {StringValue(s) : s \in Strings}
        \cup {NodeValue(callerElement), NodeValue(callerText)}
        \cup {NumberValue(5)}

Range(s) == {s[i] : i \in 1..Len(s)}

RECURSIVE SeqsUpTo(_, _)
SeqsUpTo(S, n) ==
    IF n = 0 THEN {<<>>}
    ELSE LET shorter == SeqsUpTo(S, n - 1)
         IN shorter \cup {Append(s, x) : s \in {t \in shorter : Len(t) = n - 1}, x \in S}

\* "a","b","c" in every order
RotationLists ==
    {l \in [1..3 -> {StringValue(s) : s \in RotationStrings}] : Cardinality(Range(l)) = 3}

ValueLists == SeqsUpTo(ValueDomain, MaxValues) \cup RotationLists

(***************************************************************************)
(* Sequence helpers (Array.prototype.includes / indexOf / find).           *)
(***************************************************************************)
Includes(s, x) == \E i \in 1..Len(s) : s[i] = x

\* 1-based index of the first occurrence of x in s, 0 when absent
IndexOf(s, x) == IF Includes(s, x) THEN CHOOSE i \in 1..Len(s) : s[i] = x /\ \A j \in 1..(i - 1) : s[j] # x ELSE 0

RemoveAt(s, i) == SubSeq(s, 1, i - 1) \o SubSeq(s, i + 1, Len(s))

InsertAt(s, i, x) == SubSeq(s, 1, i - 1) \o <<x>> \o SubSeq(s, i, Len(s))

(***************************************************************************)
(* The host tree API the engine uses: parentNode, nextSibling,             *)
(* removeChild, insertBefore, createTextNode.  A run of the engine is      *)
(* threaded through a record d = [tree, ops, error]: the tree so far, the  *)
(* host operations performed so far, and the error that ended the run.     *)
(***************************************************************************)
parentNode(tree, n) ==
    IF \E p \in DOMAIN tree : Includes(tree[p], n)
    THEN CHOOSE p \in DOMAIN tree : Includes(tree[p], n)
    ELSE "null"

nextSibling(tree, n) ==
    LET p == parentNode(tree, n)
    IN IF p = "null" THEN NULL
       ELSE LET i == IndexOf(tree[p], n)
            IN IF i = Len(tree[p]) THEN NULL ELSE tree[p][i + 1]

Op(name, n, ref) == [op |-> name, node |-> n, ref |-> ref]

Throw(d, class) == [d EXCEPT !.error = class]

\* Node.removeChild: NotFoundError when node is not a child of parent
DomRemoveChild(d, parent, n) ==
    IF d.error # "none" THEN d
    ELSE IF ~Includes(d.tree[parent], n) THEN Throw(d, "NotFoundError")
    ELSE [d EXCEPT !.tree[parent] = RemoveAt(@, IndexOf(@, n)),
                   !.ops = Append(@, Op("removeChild", n, NULL))]

\* the tree without n, wherever n is
Detach(tree, n) ==
    [p \in DOMAIN tree |->
        IF Includes(tree[p], n) THEN RemoveAt(tree[p], IndexOf(tree[p], n)) ELSE tree[p]]

\* Node.insertBefore: NotFoundError when child is not a child of parent; a node
\* that is in a tree is moved; inserting a node before itself keeps its place
DomInsertBefore(d, parent, n, child) ==
    IF d.error # "none" THEN d
    ELSE IF child # NULL /\ ~Includes(d.tree[parent], child) THEN Throw(d, "NotFoundError")
    ELSE LET ref == IF child = n THEN nextSibling(d.tree, n) ELSE child
             without == Detach(d.tree, n)
             at == IF ref = NULL THEN Len(without[parent]) + 1 ELSE IndexOf(without[parent], ref)
         IN [d EXCEPT !.tree = [without EXCEPT ![parent] = InsertAt(@, at, n)],
                      !.ops = Append(@, Op("insertBefore", n, child))]

(***************************************************************************)
(* NodeRangeImpl: the span between the two boundary comments, recomputed   *)
(* from the tree at every access.                                          *)
(***************************************************************************)
RECURSIVE WalkSiblings(_, _, _)
WalkSiblings(tree, n, end) ==
    IF n = NULL \/ n = end THEN <<>>
    ELSE <<n>> \o WalkSiblings(tree, nextSibling(tree, n), end)

\* mutant: the span as the engine left it, without the nodes that code outside
\* the engine has put into it since
NodeRangeEntriesCached(tree, range) ==
    SelectSeq(WalkSiblings(tree, nextSibling(tree, range.startingBoundary),
                           range.endingBoundary),
              LAMBDA n : n \notin {outsideElement, outsideText})

\* NodeRangeImpl.entries / values / [Symbol.iterator]
NodeRangeEntries(tree, range) ==
    WalkSiblings(tree, nextSibling(tree, range.startingBoundary), range.endingBoundary)

\* NodeRangeImpl.length
NodeRangeLength(tree, range) == Len(NodeRangeEntries(tree, range))

\* NodeRangeImpl.item: the node index steps after the first node of the span;
\* the walk stops with null at the ending boundary only before a step
RECURSIVE ItemWalk(_, _, _, _)
ItemWalk(tree, node, end, index) ==
    IF index = 0 THEN node
    ELSE IF node = NULL \/ node = end THEN NULL
    ELSE ItemWalk(tree, nextSibling(tree, node), end, index - 1)

NodeRangeItem(tree, range, index) ==
    IF index < 0 THEN NULL
    ELSE ItemWalk(tree, nextSibling(tree, range.startingBoundary), range.endingBoundary, index)

\* mutant: the parent is the one the boundaries had when the instance was made
NodeRangeParentNodeOfInstance(tree, range) == "host"

\* NodeRangeImpl.parentNode: "null" stands for the thrown Error
NodeRangeParentNode(tree, range) == parentNode(tree, range.startingBoundary)

\* NodeRangeImpl.removeNode
NodeRangeRemoveNode(d, range, n) ==
    IF d.error # "none" THEN d
    ELSE IF NodeRangeParentNode(d.tree, range) = "null" THEN Throw(d, "Error")
    ELSE DomRemoveChild(d, NodeRangeParentNode(d.tree, range), n)

\* mutant: the reference node is handed on as it is, without "|| this.endingBoundary"
NodeRangeInsertBeforeUnbounded(d, range, newNode, refNode) ==
    IF d.error # "none" THEN d
    ELSE IF NodeRangeParentNode(d.tree, range) = "null" THEN Throw(d, "Error")
    ELSE DomInsertBefore(d, NodeRangeParentNode(d.tree, range), newNode, refNode)

\* NodeRangeImpl.insertBefore
NodeRangeInsertBefore(d, range, newNode, refNode) ==
    IF d.error # "none" THEN d
    ELSE IF NodeRangeParentNode(d.tree, range) = "null" THEN Throw(d, "Error")
    ELSE DomInsertBefore(d, NodeRangeParentNode(d.tree, range), newNode,
                         IF refNode # NULL THEN refNode ELSE range.endingBoundary)

(***************************************************************************)
(* DynamicTemplateNodeRangePartImpl.replaceWith                            *)
(***************************************************************************)
\* every node some tree holds, and the nodes the caller holds
NodesInUse(tree) ==
    UNION {Range(tree[p]) : p \in DOMAIN tree} \cup {callerElement, callerText, siblingElement}

\* document.createTextNode: a text node no one holds yet
createTextNode(s, inUse) ==
    TextNode(s, CHOOSE k \in 1..(Cardinality(inUse) + 1) :
                    /\ TextNode(s, k) \notin inUse
                    /\ \A j \in 1..(k - 1) : TextNode(s, j) \in inUse)

\* mutant: no text node is ever found reusable
NeverReusableNodeIndex(mappable, v) == 0

\* mutant: the last matching text node is taken instead of the first
LastReusableNodeIndex(mappable, v) ==
    IF \E i \in 1..Len(mappable) : v.kind = "string" /\ mappable[i].nodeValue = v.str
    THEN CHOOSE i \in 1..Len(mappable) :
             /\ mappable[i].nodeValue = v.str
             /\ \A j \in (i + 1)..Len(mappable) : mappable[j].nodeValue # v.str
    ELSE 0

\* findIndex(textNode => textNode.nodeValue === node): 0 when there is none
ReusableNodeIndex(mappable, v) ==
    IF \E i \in 1..Len(mappable) : v.kind = "string" /\ mappable[i].nodeValue = v.str
    THEN CHOOSE i \in 1..Len(mappable) :
             /\ mappable[i].nodeValue = v.str
             /\ \A j \in 1..(i - 1) : mappable[j].nodeValue # v.str
    ELSE 0

\* nodes.map(...): the values from the i-th on, normalized to nodes
RECURSIVE NormalizeValues(_, _, _, _, _)
NormalizeValues(values, i, mappable, out, inUse) ==
    IF i > Len(values) THEN out
    ELSE IF values[i].kind = "node"
    THEN NormalizeValues(values, i + 1, mappable, Append(out, values[i].node), inUse)
    ELSE IF ReusableNodeIndex(mappable, values[i]) > 0
    THEN NormalizeValues(values, i + 1, RemoveAt(mappable, ReusableNodeIndex(mappable, values[i])),
                         Append(out, mappable[ReusableNodeIndex(mappable, values[i])]), inUse)
    ELSE NormalizeValues(values, i + 1, mappable,
                         Append(out, createTextNode(StringOf(values[i]), inUse)),
                         inUse \cup {createTextNode(StringOf(values[i]), inUse)})

\* the current text nodes a string may reuse: those not passed by identity
MappableTextNodes(currentNodes, values) ==
    SelectSeq(currentNodes, LAMBDA n : n.nodeType = TEXT_NODE /\ ~Includes(values, NodeValue(n)))

NormalizedNodes(tree, range, values) ==
    NormalizeValues(values, 1, MappableTextNodes(NodeRangeEntries(tree, range), values),
                    <<>>, NodesInUse(tree))

\* the createTextNode calls of the normalization, in order
RECURSIVE CreationOps(_, _, _)
CreationOps(normalizedNodes, inUse, i) ==
    IF i > Len(normalizedNodes) THEN <<>>
    ELSE (IF normalizedNodes[i] \in inUse THEN <<>>
          ELSE <<Op("createTextNode", normalizedNodes[i], NULL)>>)
         \o CreationOps(normalizedNodes, inUse \cup {normalizedNodes[i]}, i + 1)

\* mutant: the removal loop stops one node early
RECURSIVE RemovePhaseKeepsLast(_, _, _, _, _)
RemovePhaseKeepsLast(d, range, currentNodes, normalizedNodes, i) ==
    IF i >= Len(currentNodes) \/ d.error # "none" THEN d
    ELSE RemovePhaseKeepsLast(IF ~Includes(normalizedNodes, currentNodes[i])
                              THEN NodeRangeRemoveNode(d, range, currentNodes[i])
                              ELSE d,
                              range, currentNodes, normalizedNodes, i + 1)

\* "Remove the nodes that are no longer in the input"
RECURSIVE RemovePhase(_, _, _, _, _)
RemovePhase(d, range, currentNodes, normalizedNodes, i) ==
    IF i > Len(currentNodes) \/ d.error # "none" THEN d
    ELSE RemovePhase(IF ~Includes(normalizedNodes, currentNodes[i])
                     THEN NodeRangeRemoveNode(d, range, currentNodes[i])
                     ELSE d,
                     range, currentNodes, normalizedNodes, i + 1)

\* currentNodes.find(node => normalizedNodes.includes(node))
FirstPreservedNode(currentNodes, normalizedNodes) ==
    IF \E i \in 1..Len(currentNodes) : Includes(normalizedNodes, currentNodes[i])
    THEN currentNodes[CHOOSE i \in 1..Len(currentNodes) :
                          /\ Includes(normalizedNodes, currentNodes[i])
                          /\ \A j \in 1..(i - 1) : ~Includes(normalizedNodes, currentNodes[j])]
    ELSE NULL

\* "Reorder preserved nodes"
RECURSIVE ReorderPhase(_, _, _, _, _, _)
ReorderPhase(d, range, currentNodes, normalizedNodes, i, currentNode) ==
    IF i > Len(normalizedNodes) \/ d.error # "none" THEN d
    ELSE IF ~Includes(currentNodes, normalizedNodes[i])
    THEN ReorderPhase(d, range, currentNodes, normalizedNodes, i + 1, currentNode)
    ELSE IF normalizedNodes[i] # currentNode
    THEN ReorderPhase(NodeRangeInsertBefore(d, range, normalizedNodes[i], currentNode),
                      range, currentNodes, normalizedNodes, i + 1, currentNode)
    ELSE ReorderPhase(d, range, currentNodes, normalizedNodes, i + 1,
                      nextSibling(d.tree, currentNode))

\* mutant: the insertion cursor is never advanced
RECURSIVE InsertPhaseStuck(_, _, _, _, _)
InsertPhaseStuck(d, range, normalizedNodes, i, insertBeforeNode) ==
    IF i > Len(normalizedNodes) \/ d.error # "none" THEN d
    ELSE IF normalizedNodes[i] # insertBeforeNode
    THEN InsertPhaseStuck(NodeRangeInsertBefore(d, range, normalizedNodes[i], insertBeforeNode),
                          range, normalizedNodes, i + 1, insertBeforeNode)
    ELSE InsertPhaseStuck(d, range, normalizedNodes, i + 1, insertBeforeNode)

\* "Insert new nodes"
RECURSIVE InsertPhase(_, _, _, _, _)
InsertPhase(d, range, normalizedNodes, i, insertBeforeNode) ==
    IF i > Len(normalizedNodes) \/ d.error # "none" THEN d
    ELSE IF normalizedNodes[i] # insertBeforeNode
    THEN InsertPhase(NodeRangeInsertBefore(d, range, normalizedNodes[i], insertBeforeNode),
                     range, normalizedNodes, i + 1, insertBeforeNode)
    ELSE InsertPhase(d, range, normalizedNodes, i + 1, nextSibling(d.tree, insertBeforeNode))

\* the phases of replaceWith on given current and normalized nodes
ReconcileNodes(tree, range, currentNodes, normalizedNodes, firstPreservedNode) ==
    LET d0 == [tree |-> tree,
               ops |-> CreationOps(normalizedNodes, NodesInUse(tree), 1),
               error |-> "none"]
        d1 == RemovePhase(d0, range, currentNodes, normalizedNodes, 1)
        d2 == IF firstPreservedNode # NULL
              THEN ReorderPhase(d1, range, currentNodes, normalizedNodes, 1, firstPreservedNode)
              ELSE d1
    IN InsertPhase(d2, range, normalizedNodes, 1, firstPreservedNode)

\* replaceWith(...nodes) on the tree `tree`: the tree, operations and error it ends with
replaceWith(tree, range, values) ==
    CHOOSE r \in {ReconcileNodes(tree, range, c, n, FirstPreservedNode(c, n)) :
                      c \in {NodeRangeEntries(tree, range)},
                      n \in {NormalizedNodes(tree, range, values)}} : TRUE

(***************************************************************************)
(* The reconciler as a state machine: an instance with one node-range      *)
(* part, and a caller that calls replaceWith on the part again and again.  *)
(* lastValues, prevChildNodes, ops, error and repeated record the last     *)
(* call for the properties below; the caller drops the record (Return)     *)
(* before it calls with other arguments, or repeats the call as it is.     *)
(***************************************************************************)
\* instantiate: the marker element replaced by the two adjacent boundary comments
ReconcilerIdle ==
    /\ childNodes = [p \in Parents |-> <<nodes.startingBoundary, nodes.endingBoundary>>]
    /\ phase = "idle"
    /\ lastValues = <<>>
    /\ prevChildNodes = childNodes
    /\ ops = <<>>
    /\ error = "none"
    /\ repeated = FALSE

InitReconcile == ReconcilerIdle /\ ScannerIdle

Call(values) ==
    \E r \in {replaceWith(childNodes, nodes, values)} :
       /\ childNodes' = r.tree
       /\ ops' = r.ops
       /\ error' = r.error
       /\ lastValues' = values
       /\ prevChildNodes' = childNodes
       /\ phase' = "called"

\* part.replaceWith(...values)
ReplaceWith(values) ==
    /\ phase = "idle"
    /\ Call(values)
    /\ repeated' = FALSE
    /\ UNCHANGED svars

\* part.replaceWith(...values) once more, with the values of the call that just returned
ReplaceWithAgain ==
    /\ phase = "called"
    /\ error = "none"
    /\ ~repeated
    /\ Call(lastValues)
    /\ repeated' = TRUE
    /\ UNCHANGED svars

Return ==
    /\ phase = "called"
    /\ phase' = "idle"
    /\ lastValues' = <<>>
    /\ prevChildNodes' = childNodes
    /\ ops' = <<>>
    /\ error' = "none"
    /\ repeated' = FALSE
    /\ UNCHANGED childNodes
    /\ UNCHANGED svars

NextReconcile ==
    \/ \E values \in ValueLists : ReplaceWith(values)
    \/ ReplaceWithAgain
    \/ Return

SpecReconcile == InitReconcile /\ [][NextReconcile]_vars

\* code outside the engine takes a boundary comment out of its parent, between
\* two calls: boundary.parentNode.removeChild(boundary)
RemoveBoundary(boundary) ==
    /\ phase = "idle"
    /\ parentNode(childNodes, boundary) # "null"
    /\ childNodes' = Detach(childNodes, boundary)
    /\ prevChildNodes' = childNodes'
    /\ UNCHANGED <<phase, lastValues, ops, error, repeated>>
    /\ UNCHANGED svars

\* the reconciler with a third party that removes boundaries
NextDetached ==
    \/ NextReconcile
    \/ \E boundary \in {nodes.startingBoundary, nodes.endingBoundary} : RemoveBoundary(boundary)

SpecDetached == InitReconcile /\ [][NextDetached]_vars

(***************************************************************************)
(* The reconciler in a tree that it shares: the span has siblings before   *)
(* and after it and another node range beside it, and code outside the     *)
(* engine, between two calls, puts nodes of its own into the tree, takes   *)
(* nodes out of the span, and moves the nodes of the instance into a       *)
(* container, to its end or into the node range of an ancestor.            *)
(***************************************************************************)
\* the node range of another part, in the same parent, and the text in it
otherNodes == [startingBoundary |-> CommentNode(3), endingBoundary |-> CommentNode(4)]

otherText == TextNode("a", 7)

\* a text between the two node ranges
siblingText == TextNode("b", 7)

\* the node range of an ancestor, in the container
ancestorNodes == [startingBoundary |-> CommentNode(5), endingBoundary |-> CommentNode(6)]

InitOutside ==
    /\ childNodes =
           [p \in {"host", "container"} |->
               IF p = "host"
               THEN <<siblingElement, nodes.startingBoundary, nodes.endingBoundary, siblingText,
                      otherNodes.startingBoundary, otherText, otherNodes.endingBoundary>>
               ELSE <<ancestorNodes.startingBoundary, ancestorNodes.endingBoundary>>]
    /\ phase = "idle"
    /\ lastValues = <<>>
    /\ prevChildNodes = childNodes
    /\ ops = <<>>
    /\ error = "none"
    /\ repeated = FALSE
    /\ ScannerIdle

\* a step of the code outside the engine, which leaves the tree as given
Outside(tree) ==
    /\ phase = "idle"
    /\ childNodes' = tree
    /\ prevChildNodes' = tree
    /\ UNCHANGED <<phase, lastValues, ops, error, repeated>>
    /\ UNCHANGED svars

\* parent.insertBefore(n, ref), n a node that is in no tree: into the span,
\* or after it
InsertOutside(n, ref) ==
    /\ parentNode(childNodes, n) = "null"
    /\ parentNode(childNodes, ref) # "null"
    /\ Outside(DomInsertBefore([tree |-> childNodes, ops |-> <<>>, error |-> "none"],
                               parentNode(childNodes, ref), n, ref).tree)

\* n.parentNode.removeChild(n), n a node of the span
RemoveOutside(n) ==
    /\ Includes(NodeRangeEntries(childNodes, nodes), n)
    /\ Outside(Detach(childNodes, n))

\* container.appendChild(instance), or the root nodes of the instance put
\* into the node range of the ancestor: the children of the host, in their
\* order, before the reference node
MoveToContainer(ref) ==
    /\ childNodes["host"] # <<>>
    /\ Outside([p \in DOMAIN childNodes |->
                   IF p = "host" THEN <<>>
                   ELSE IF ref = NULL THEN childNodes[p] \o childNodes["host"]
                   ELSE SubSeq(childNodes[p], 1, IndexOf(childNodes[p], ref) - 1)
                            \o childNodes["host"]
                            \o SubSeq(childNodes[p], IndexOf(childNodes[p], ref),
                                      Len(childNodes[p]))])

\* the code outside the engine has one node of its own in the tree at a time;
\* it puts its nodes at the start or the end of the span, and the element of
\* the caller after the span
NextOutside ==
    \/ NextReconcile
    \/ \E n \in {outsideElement, outsideText} :
          \E ref \in {nextSibling(childNodes, nodes.startingBoundary), nodes.endingBoundary} :
             /\ parentNode(childNodes, outsideElement) = "null"
             /\ parentNode(childNodes, outsideText) = "null"
             /\ InsertOutside(n, ref)
    \/ InsertOutside(callerElement, siblingText)
    \/ \E n \in Range(NodeRangeEntries(childNodes, nodes)) : RemoveOutside(n)
    \/ \E ref \in {NULL, ancestorNodes.endingBoundary} : MoveToContainer(ref)

SpecOutside == InitOutside /\ [][NextOutside]_vars

(***************************************************************************)
(* Properties of the reconciler.                                           *)
(***************************************************************************)
Span == NodeRangeEntries(childNodes, nodes)

PrevSpan == NodeRangeEntries(prevChildNodes, nodes)

Returned == phase = "called" /\ error = "none"

OpsNamed(name) == SelectSeq(ops, LAMBDA o : o.op = name)

\* every value is a string or a node
StringsAndNodes(values) == \A i \in 1..Len(values) : values[i].kind \in {"string", "node"}

\* the values that are nodes are pairwise distinct
DistinctNodes(values) ==
    \A i, j \in 1..Len(values) :
        (i # j /\ values[i].kind = "node" /\ values[j].kind = "node") => values[i] # values[j]

\* node n stands for value v
Materializes(n, v) ==
    IF v.kind = "node" THEN n = v.node
    ELSE n.nodeType = TEXT_NODE /\ n.nodeValue = v.str

\* the span holds, in order, exactly the nodes of the values
SpanIs(values) ==
    /\ Len(Span) = Len(values)
    /\ \A i \in 1..Len(values) : Materializes(Span[i], values[i])

\* C1: for strings and pairwise-distinct nodes, and any prior span, replaceWith
\* returns, and the span then holds, in order, exactly the nodes of the values:
\* each node itself, each string as a text node with that text, nothing else.
C1_SpanHoldsValues ==
    (phase = "called" /\ StringsAndNodes(lastValues) /\ DistinctNodes(lastValues))
        => (error = "none" /\ SpanIs(lastValues))

\* a call that dropped two text nodes, kept one and inserted an element
C1_Witness ==
    /\ Returned
    /\ lastValues = <<NodeValue(callerElement), StringValue("b")>>
    /\ Len(PrevSpan) = 3
    /\ \A i \in 1..3 : PrevSpan[i].nodeType = TEXT_NODE
    /\ PrevSpan[3].nodeValue = "b"
    /\ Span = <<callerElement, PrevSpan[3]>>
    /\ Len(OpsNamed("removeChild")) = 2

\* C4 as claimed: a call repeated with the same strings and nodes performs no
\* host-tree operation (no remove, no insert-before, no text node creation).
C4_RepeatIsSilent ==
    (phase = "called" /\ repeated /\ StringsAndNodes(lastValues)) => ops = <<>>

\* C4 amended: a call repeated with the same strings and pairwise-distinct
\* nodes performs no host-tree operation and leaves the tree as it is.
C4_RepeatOfDistinctIsSilent ==
    (phase = "called" /\ repeated /\ StringsAndNodes(lastValues) /\ DistinctNodes(lastValues))
        => (error = "none" /\ ops = <<>> /\ childNodes = prevChildNodes)

\* replaceWith("c","a","b") called twice in a row
C4_Witness ==
    /\ Returned
    /\ repeated
    /\ lastValues = <<StringValue("c"), StringValue("a"), StringValue("b")>>
    /\ SpanIs(lastValues)
    /\ ops = <<>>

\* the text nodes of the prior span with text s that the values do not pass by identity
UnpassedTextNodes(s) ==
    SelectSeq(PrevSpan, LAMBDA n : /\ n.nodeType = TEXT_NODE
                                   /\ n.nodeValue = s
                                   /\ \A i \in 1..Len(lastValues) : lastValues[i].node # n)

\* the positions of the string s in the values, in order
PositionsOfString(s) ==
    SelectSeq([i \in 1..Len(lastValues) |-> i],
              LAMBDA i : lastValues[i].kind = "string" /\ lastValues[i].str = s)

Max(x, y) == IF x > y THEN x ELSE y

RECURSIVE Sum(_, _)
Sum(f, S) == IF S = {} THEN 0 ELSE LET x == CHOOSE y \in S : TRUE IN f[x] + Sum(f, S \ {x})

\* C5: the j-th occurrence of a string in the values is materialized by the
\* j-th text node of the prior span that has that text and is not passed by
\* identity (so the first unused match is taken and none is taken twice); a
\* text node is created only for the occurrences beyond those nodes; and on
\* a span of two text nodes x, y the call replaceWith(y, x) creates nothing
\* and leaves the same two nodes, swapped.
C5_TextNodesReused ==
    (Returned /\ StringsAndNodes(lastValues) /\ DistinctNodes(lastValues)) =>
        /\ \A s \in RotationStrings : \A j \in 1..Len(PositionsOfString(s)) :
               IF j <= Len(UnpassedTextNodes(s))
               THEN Span[PositionsOfString(s)[j]] = UnpassedTextNodes(s)[j]
               ELSE /\ ~Includes(PrevSpan, Span[PositionsOfString(s)[j]])
                    /\ Span[PositionsOfString(s)[j]] # callerText
                    /\ Includes(ops, Op("createTextNode", Span[PositionsOfString(s)[j]], NULL))
        /\ Len(OpsNamed("createTextNode"))
               = Sum([s \in RotationStrings |->
                         Max(0, Len(PositionsOfString(s)) - Len(UnpassedTextNodes(s)))],
                     RotationStrings)
        /\ (/\ Len(PrevSpan) = 2
            /\ PrevSpan[1].nodeType = TEXT_NODE /\ PrevSpan[2].nodeType = TEXT_NODE
            /\ PrevSpan[1].nodeValue # PrevSpan[2].nodeValue
            /\ lastValues = <<StringValue(PrevSpan[2].nodeValue), StringValue(PrevSpan[1].nodeValue)>>)
               => (Span = <<PrevSpan[2], PrevSpan[1]>> /\ OpsNamed("createTextNode") = <<>>)

\* replaceWith("b","a") on a span that held the text nodes "a","b"
C5_Witness ==
    /\ Returned
    /\ Len(PrevSpan) = 2
    /\ PrevSpan[1].nodeType = TEXT_NODE /\ PrevSpan[1].nodeValue = "a" /\ PrevSpan[1] # callerText
    /\ PrevSpan[2].nodeType = TEXT_NODE /\ PrevSpan[2].nodeValue = "b"
    /\ lastValues = <<StringValue("b"), StringValue("a")>>
    /\ Span = <<PrevSpan[2], PrevSpan[1]>>
    /\ OpsNamed("createTextNode") = <<>>

\* the prior span held three text nodes "a","b","c"
PrevSpanIsABC ==
    /\ Len(PrevSpan) = 3
    /\ \A i \in 1..3 : PrevSpan[i].nodeType = TEXT_NODE
    /\ <<PrevSpan[1].nodeValue, PrevSpan[2].nodeValue, PrevSpan[3].nodeValue>> = <<"a", "b", "c">>

\* C6 as claimed: on a span that replaceWith("a","b","c") filled, the call
\* replaceWith("b","c","a") creates no text node, removes no node and performs
\* exactly two insert-before operations.
C6_RotationTakesTwoMoves ==
    (phase = "called" /\ PrevSpanIsABC
        /\ lastValues = <<StringValue("b"), StringValue("c"), StringValue("a")>>)
        => /\ error = "none"
           /\ OpsNamed("createTextNode") = <<>>
           /\ OpsNamed("removeChild") = <<>>
           /\ Len(OpsNamed("insertBefore")) = 2

\* C7 as claimed: a value that is neither a string nor a node makes replaceWith
\* fail with a TypeError before any node was removed, moved or inserted.
C7_OtherValuesRejected ==
    (phase = "called" /\ ~StringsAndNodes(lastValues))
        => (error = "TypeError" /\ childNodes = prevChildNodes)

\* C8: replaceWith() with no values removes every node of the span, whatever
\* it held: the span length is 0, the end boundary is the next sibling of the
\* start boundary, and the tree is again the freshly materialized one.
C8_EmptyClearsSpan ==
    (phase = "called" /\ lastValues = <<>>) =>
        /\ error = "none"
        /\ NodeRangeLength(childNodes, nodes) = 0
        /\ nextSibling(childNodes, nodes.startingBoundary) = nodes.endingBoundary
        /\ \A i \in 1..Len(PrevSpan) : parentNode(childNodes, PrevSpan[i]) = "null"
        /\ childNodes = [p \in Parents |-> <<nodes.startingBoundary, nodes.endingBoundary>>]

\* replaceWith() after a call that left one text node in the span
C8_Witness ==
    /\ Returned
    /\ lastValues = <<>>
    /\ Len(PrevSpan) = 1
    /\ PrevSpan[1].nodeType = TEXT_NODE
    /\ ops = <<Op("removeChild", PrevSpan[1], NULL)>>
    /\ Span = <<>>

Boundaries == {nodes.startingBoundary, nodes.endingBoundary}

\* C9: no call removes or relocates a boundary: both stay children of the
\* same parent, the start before the end, and every other child of that
\* parent, so every node the values put in the tree, lies between them.
C9_BoundariesStay ==
    /\ \A i \in 1..Len(ops) : ops[i].node \notin Boundaries
    /\ \A p \in Parents :
           /\ childNodes[p][1] = nodes.startingBoundary
           /\ childNodes[p][Len(childNodes[p])] = nodes.endingBoundary
           /\ childNodes[p] = <<nodes.startingBoundary>> \o Span \o <<nodes.endingBoundary>>
    /\ \A b \in Boundaries : \A p \in Parents :
           Cardinality({i \in 1..Len(childNodes[p]) : childNodes[p][i] = b}) = 1
    /\ (Returned /\ StringsAndNodes(lastValues)) =>
           \A i \in 1..Len(lastValues) : \E k \in 1..Len(Span) : Materializes(Span[k], lastValues[i])

\* a call that removed one node and inserted another
C9_Witness ==
    /\ Returned
    /\ Len(OpsNamed("removeChild")) > 0
    /\ Len(OpsNamed("insertBefore")) > 0
    /\ Len(Span) = 2
    /\ childNodes["host"] = <<nodes.startingBoundary>> \o Span \o <<nodes.endingBoundary>>

(***************************************************************************)
(* Markup text.  A string is a sequence of one-character strings, and      *)
(* positions in it are counted from 0 as in the source.                    *)
(***************************************************************************)
\* the characters /\s/ matches, of those the modelled markup is written in
Whitespace == {" "}

Minimum(S) == CHOOSE x \in S : \A y \in S : x <= y

Maximum(S) == CHOOSE x \in S : \A y \in S : x >= y

charAt(s, i) == IF i >= 0 /\ i < Len(s) THEN s[i + 1] ELSE ""

\* the index String.prototype.slice makes of an argument
SliceIndex(s, i) == IF i < 0 THEN Maximum({Len(s) + i, 0}) ELSE Minimum({i, Len(s)})

slice(s, start, end) ==
    LET a == SliceIndex(s, start)
        b == SliceIndex(s, end)
    IN  IF a < b THEN SubSeq(s, a + 1, b) ELSE <<>>

sliceFrom(s, start) == slice(s, start, Len(s))

startsWith(s, searchString, position) ==
    /\ position >= 0
    /\ position + Len(searchString) <= Len(s)
    /\ SubSeq(s, position + 1, position + Len(searchString)) = searchString

indexOf(s, searchString, position) ==
    LET from == Maximum({0, Minimum({position, Len(s)})})
        found == {i \in from..(Len(s) - Len(searchString)) : startsWith(s, searchString, i)}
    IN  IF found = {} THEN -1 ELSE Minimum(found)

lastIndexOf(s, searchString) ==
    LET found == {i \in 0..(Len(s) - Len(searchString)) : startsWith(s, searchString, i)}
    IN  IF found = {} THEN -1 ELSE Maximum(found)

RECURSIVE join(_, _)
join(strings, separator) ==
    IF strings = <<>> THEN <<>>
    ELSE IF Len(strings) = 1 THEN strings[1]
    ELSE strings[1] \o separator \o join(Tail(strings), separator)

\* String.prototype.split on a one-character separator
RECURSIVE split(_, _)
split(s, separator) ==
    LET at == indexOf(s, separator, 0)
    IN  IF at = -1 THEN <<s>>
        ELSE <<slice(s, 0, at)>> \o split(sliceFrom(s, at + 1), separator)

(***************************************************************************)
(* document.createDynamicTemplate: detection of the namespace.             *)
(***************************************************************************)
SVG_ONLY_ELEMENTS == {
    <<"a", "l", "t", "G", "l", "y", "p", "h">>,
    <<"a", "l", "t", "G", "l", "y", "p", "h", "D", "e", "f">>,
    <<"a", "l", "t", "G", "l", "y", "p", "h", "I", "t", "e", "m">>,
    <<"a", "n", "i", "m", "a", "t", "e">>,
    <<"a", "n", "i", "m", "a", "t", "e", "C", "o", "l", "o", "r">>,
    <<"a", "n", "i", "m", "a", "t", "e", "M", "o", "t", "i", "o", "n">>,
    <<"a", "n", "i", "m", "a", "t", "e", "T", "r", "a", "n", "s", "f", "o", "r", "m">>,
    <<"c", "i", "r", "c", "l", "e">>,
    <<"c", "l", "i", "p", "P", "a", "t", "h">>,
    <<"c", "o", "l", "o", "r", "-", "p", "r", "o", "f", "i", "l", "e">>,
    <<"c", "u", "r", "s", "o", "r">>,
    <<"d", "e", "f", "s">>,
    <<"d", "e", "s", "c">>,
    <<"e", "l", "l", "i", "p", "s", "e">>,
    <<"f", "e", "B", "l", "e", "n", "d">>,
    <<"f", "e", "C", "o", "l", "o", "r", "M", "a", "t", "r", "i", "x">>,
    <<"f", "e", "C", "o", "m", "p", "o", "n", "e", "n", "t", "T", "r", "a", "n", "s", "f", "e", "r">>,
    <<"f", "e", "C", "o", "m", "p", "o", "s", "i", "t", "e">>,
    <<"f", "e", "C", "o", "n", "v", "o", "l", "v", "e", "M", "a", "t", "r", "i", "x">>,
    <<"f", "e", "D", "i", "f", "f", "u", "s", "e", "L", "i", "g", "h", "t", "i", "n", "g">>,
    <<"f", "e", "D", "i", "s", "p", "l", "a", "c", "e", "m", "e", "n", "t", "M", "a", "p">>,
    <<"f", "e", "D", "i", "s", "t", "a", "n", "t", "L", "i", "g", "h", "t">>,
    <<"f", "e", "F", "l", "o", "o", "d">>,
    <<"f", "e", "F", "u", "n", "c", "A">>,
    <<"f", "e", "F", "u", "n", "c", "B">>,
    <<"f", "e", "F", "u", "n", "c", "G">>,
    <<"f", "e", "F", "u", "n", "c", "R">>,
    <<"f", "e", "G", "a", "u", "s", "s", "i", "a", "n", "B", "l", "u", "r">>,
    <<"f", "e", "I", "m", "a", "g", "e">>,
    <<"f", "e", "M", "e", "r", "g", "e">>,
    <<"f", "e", "M", "e", "r", "g", "e", "N", "o", "d", "e">>,
    <<"f", "e", "M", "o", "r", "p", "h", "o", "l", "o", "g", "y">>,
    <<"f", "e", "O", "f", "f", "s", "e", "t">>,
    <<"f", "e", "P", "o", "i", "n", "t", "L", "i", "g", "h", "t">>,
    <<"f", "e", "S", "p", "e", "c", "u", "l", "a", "r", "L", "i", "g", "h", "t", "i", "n", "g">>,
    <<"f", "e", "S", "p", "o", "t", "L", "i", "g", "h", "t">>,
    <<"f", "e", "T", "i", "l", "e">>,
    <<"f", "e", "T", "u", "r", "b", "u", "l", "e", "n", "c", "e">>,
    <<"f", "i", "l", "t", "e", "r">>,
    <<"f", "o", "n", "t", "-", "f", "a", "c", "e">>,
    <<"f", "o", "n", "t", "-", "f", "a", "c", "e", "-", "f", "o", "r", "m", "a", "t">>,
    <<"f", "o", "n", "t", "-", "f", "a", "c", "e", "-", "n", "a", "m", "e">>,
    <<"f", "o", "n", "t", "-", "f", "a", "c", "e", "-", "s", "r", "c">>,
    <<"f", "o", "n", "t", "-", "f", "a", "c", "e", "-", "u", "r", "i">>,
    <<"f", "o", "r", "e", "i", "g", "n", "O", "b", "j", "e", "c", "t">>,
    <<"g">>,
    <<"g", "l", "y", "p", "h">>,
    <<"g", "l", "y", "p", "h", "R", "e", "f">>,
    <<"h", "k", "e", "r", "n">>,
    <<"l", "i", "n", "e">>,
    <<"l", "i", "n", "e", "a", "r", "G", "r", "a", "d", "i", "e", "n", "t">>,
    <<"m", "a", "r", "k", "e", "r">>,
    <<"m", "a", "s", "k">>,
    <<"m", "e", "t", "a", "d", "a", "t", "a">>,
    <<"m", "i", "s", "s", "i", "n", "g", "-", "g", "l", "y", "p", "h">>,
    <<"m", "p", "a", "t", "h">>,
    <<"p", "a", "t", "h">>,
    <<"p", "a", "t", "t", "e", "r", "n">>,
    <<"p", "o", "l", "y", "g", "o", "n">>,
    <<"p", "o", "l", "y", "l", "i", "n", "e">>,
    <<"r", "a", "d", "i", "a", "l", "G", "r", "a", "d", "i", "e", "n", "t">>,
    <<"r", "e", "c", "t">>,
    <<"s", "e", "t">>,
    <<"s", "t", "o", "p">>,
    <<"s", "w", "i", "t", "c", "h">>,
    <<"s", "y", "m", "b", "o", "l">>,
    <<"t", "e", "x", "t">>,
    <<"t", "e", "x", "t", "P", "a", "t", "h">>,
    <<"t", "r", "e", "f">>,
    <<"t", "s", "p", "a", "n">>,
    <<"u", "s", "e">>,
    <<"v", "i", "e", "w">>,
    <<"v", "k", "e", "r", "n">>
    }

SHARED_ELEMENTS == {<<"a">>, <<"f", "o", "n", "t">>, <<"i", "m", "a", "g", "e">>, <<"s", "c", "r", "i", "p", "t">>, <<"s", "t", "y", "l", "e">>, <<"t", "i", "t", "l", "e">>}

\* the characters of /[^\s:=/>]/
IsNameCharacter(c) == c # "" /\ c \notin Whitespace \cup {":", "=", "/", ">"}

RECURSIVE SkipWhitespace(_, _)
SkipWhitespace(s, position) ==
    IF charAt(s, position) \in Whitespace THEN SkipWhitespace(s, position + 1) ELSE position

RECURSIVE SkipName(_, _)
SkipName(s, position) ==
    IF IsNameCharacter(charAt(s, position)) THEN SkipName(s, position + 1) ELSE position

\* mutant: "/" counts as a character of the name
FirstElementNameWithSlash(completeMarkup) ==
    LET rest == sliceFrom(completeMarkup, indexOf(completeMarkup, <<"<">>, 0) + 1)
        nameStart == SkipWhitespace(rest, 0)
    IN  IF charAt(rest, nameStart) = "/"
        THEN slice(rest, nameStart, SkipName(rest, nameStart + 1))
        ELSE slice(rest, nameStart, SkipName(rest, nameStart))

\* completeMarkup.slice(firstElementStart + 1).match(/^\s*([^\s:=/>]+)/)?.[1]
FirstElementName(completeMarkup) ==
    LET rest == sliceFrom(completeMarkup, indexOf(completeMarkup, <<"<">>, 0) + 1)
        nameStart == SkipWhitespace(rest, 0)
    IN  slice(rest, nameStart, SkipName(rest, nameStart))

\* const firstElementStart = completeMarkup.indexOf('<')
firstElementStart(fragments) == indexOf(join(fragments, <<>>), <<"<">>, 0)

\* mutant: the detection reads the first fragment only
DetectNamespaceOfFirstFragment(fragments) ==
    LET completeMarkup == IF fragments = <<>> THEN <<>> ELSE fragments[1]
    IN  IF indexOf(completeMarkup, <<"<">>, 0) = -1 THEN "html"
        ELSE IF FirstElementName(completeMarkup) = <<>> THEN "InvalidMarkup"
        ELSE IF FirstElementName(completeMarkup) \in SVG_ONLY_ELEMENTS THEN "svg"
        ELSE "html"

\* The result of the namespace detection: "svg", "html", or "InvalidMarkup"
\* when it throws.  For a name of SHARED_ELEMENTS the detection asks the host
\* to parse the markup and then hands querySelector the selector
\* "[altGlyph,altGlyphDef,...]", which is no selector: the host throws a
\* SyntaxError, the catch block returns false.  The branch before it returns
\* false as well, so the name is taken for HTML whatever the markup holds.
DetectNamespace(fragments) ==
    LET completeMarkup == join(fragments, <<>>)
    IN  IF indexOf(completeMarkup, <<"<">>, 0) = -1 THEN "html"
        ELSE IF FirstElementName(completeMarkup) = <<>> THEN "InvalidMarkup"
        ELSE IF FirstElementName(completeMarkup) \in SVG_ONLY_ELEMENTS THEN "svg"
        ELSE "html"

(***************************************************************************)
(* document.createDynamicTemplate: the scanner.  The scanner state is the  *)
(* record s = [fragment, currentPosition, isInsideElement,                 *)
(* isInsideComment, currentDynamicAttributes, thrown]; one pass of the     *)
(* do-while loop maps it to the next.                                      *)
(***************************************************************************)
\* /^\s*(?:"[^"]*"|'[^']*'|[^\s"']*(?:\s|$))/.test(s): the leading \s* may
\* match nothing, and then the last alternative matches a leading blank
IsFullyFormedValue(s) ==
    \/ s = <<>>
    \/ s[1] \in Whitespace
    \/ s[1] \in {"\"", "'"} /\ indexOf(s, <<s[1]>>, 1) > -1
    \/ LET stops == {i \in 1..Len(s) : s[i] \in Whitespace \cup {"\"", "'"}}
       IN  stops = {} \/ s[Minimum(stops)] \in Whitespace

RECURSIVE AttributeNameEnd(_, _)
AttributeNameEnd(f, position) ==
    IF charAt(f, position) \in Whitespace
    THEN AttributeNameEnd(f, position - 1) ELSE position

\* /\S/.test(c)
IsNonWhitespace(c) == c # "" /\ c \notin Whitespace

RECURSIVE AttributeNameStart(_, _)
AttributeNameStart(f, position) ==
    IF position # 0 /\ IsNonWhitespace(charAt(f, position - 1))
    THEN AttributeNameStart(f, position - 1) ELSE position

\* the token queued for a placeholder that ends the fragment inside a tag
DynamicAttributeToken(f) ==
    LET valueSeparator == lastIndexOf(f, <<"=">>)
        attributeNameEnd == AttributeNameEnd(f, valueSeparator - 1)
        attributeNameStart == AttributeNameStart(f, attributeNameEnd)
    IN  IF valueSeparator = -1 THEN <<>>
        ELSE IF IsFullyFormedValue(sliceFrom(f, valueSeparator + 1)) THEN <<>>
        ELSE slice(f, attributeNameStart, attributeNameEnd + 1)

\* /[^\s>]/
RECURSIVE SkipUnquotedValue(_, _)
SkipUnquotedValue(s, position) ==
    IF charAt(s, position) # "" /\ charAt(s, position) \notin Whitespace \cup {">"}
    THEN SkipUnquotedValue(s, position + 1) ELSE position

\* "Skip attributes of the current element up to the position of potential
\* element end"
RECURSIVE SkipAttributes(_, _, _)
SkipAttributes(f, position, elementEnd) ==
    LET nextAttributeValueDelimiterIndex ==
            indexOf(slice(f, 0, elementEnd), <<"=">>, position)
        valueStart == SkipWhitespace(f, nextAttributeValueDelimiterIndex + 1)
        valueDelimiter == charAt(f, valueStart)
    IN  IF nextAttributeValueDelimiterIndex = -1 THEN position
        ELSE IF valueDelimiter \in {"\"", "'"}
        THEN SkipAttributes(f,
                 indexOf(f, <<valueDelimiter>>, valueStart) + 1, elementEnd)
        ELSE SkipAttributes(f, SkipUnquotedValue(f, valueStart), elementEnd)

\* mutant: the tokens are lost
dynamicAttributesNoteEmpty(queued) ==
    <<" ", "d", "a", "t", "a", "-", "d", "t", "p", "p", "-", "a", "t", "t", "r", "i", "b", "u", "t", "e", "s", "=", "\"", "\"">>

dynamicAttributesNote(queued) ==
    <<" ", "d", "a", "t", "a", "-", "d", "t", "p", "p", "-", "a", "t", "t", "r", "i", "b", "u", "t", "e", "s", "=", "\"">> \o join(queued, <<";">>) \o <<"\"">>

\* mutant: after the comment the fragment is scanned from its start again
CommentBranchRestarts(s) ==
    LET found == indexOf(s.fragment, <<"-", "-", ">">>, s.currentPosition)
    IN  IF found = -1 THEN [s EXCEPT !.thrown = "UnterminatedComment"]
        ELSE [s EXCEPT !.currentPosition = 0, !.isInsideComment = FALSE]

\* the cursor is inside a comment
CommentBranch(s) ==
    LET found == indexOf(s.fragment, <<"-", "-", ">">>, s.currentPosition)
    IN  IF found = -1 THEN [s EXCEPT !.thrown = "UnterminatedComment"]
        ELSE [s EXCEPT !.currentPosition = found + 4, !.isInsideComment = FALSE]

\* mutant: the tokens written at the end of the tag stay queued
ElementBranchKeepsQueue(s) ==
    LET elementEnd == indexOf(s.fragment, <<">">>, s.currentPosition)
        skipped == SkipAttributes(s.fragment, s.currentPosition, elementEnd)
        note == dynamicAttributesNote(s.currentDynamicAttributes)
    IN  IF elementEnd = -1
        THEN [s EXCEPT !.currentDynamicAttributes = Append(@, DynamicAttributeToken(s.fragment)),
                       !.currentPosition = -1]
        ELSE IF skipped > elementEnd
        THEN [s EXCEPT !.currentPosition = skipped]
        ELSE IF s.currentDynamicAttributes # <<>>
        THEN [s EXCEPT !.isInsideElement = FALSE,
                       !.fragment = slice(s.fragment, 0, elementEnd) \o note
                                        \o sliceFrom(s.fragment, elementEnd),
                       !.currentPosition = elementEnd + Len(note) + 1]
        ELSE [s EXCEPT !.isInsideElement = FALSE, !.currentPosition = elementEnd + 1]

\* the cursor is inside a tag
ElementBranch(s) ==
    LET elementEnd == indexOf(s.fragment, <<">">>, s.currentPosition)
        skipped == SkipAttributes(s.fragment, s.currentPosition, elementEnd)
        note == dynamicAttributesNote(s.currentDynamicAttributes)
    IN  IF elementEnd = -1
        THEN [s EXCEPT !.currentDynamicAttributes = Append(@, DynamicAttributeToken(s.fragment)),
                       !.currentPosition = -1]
        ELSE IF skipped > elementEnd
        THEN [s EXCEPT !.currentPosition = skipped]
        ELSE IF s.currentDynamicAttributes # <<>>
        THEN [s EXCEPT !.isInsideElement = FALSE,
                       !.currentDynamicAttributes = <<>>,
                       !.fragment = slice(s.fragment, 0, elementEnd) \o note
                                        \o sliceFrom(s.fragment, elementEnd),
                       !.currentPosition = elementEnd + Len(note) + 1]
        ELSE [s EXCEPT !.isInsideElement = FALSE, !.currentPosition = elementEnd + 1]

\* mutant: the marker is a span in SVG markup too
markerElementSpan(svg) == <<"s", "p", "a", "n">>

markerElement(svg) == IF svg THEN <<"g">> ELSE <<"s", "p", "a", "n">>

nodesMarker(svg) ==
    <<"<">> \o markerElement(svg) \o <<" ", "d", "a", "t", "a", "-", "d", "t", "p", "p", "-", "n", "o", "d", "e", "s", "=", "\"", "\"", ">", "<", "/">> \o markerElement(svg) \o <<">">>

\* the cursor is in text
TextBranch(s, isLastFragment, svg) ==
    LET found == indexOf(s.fragment, <<"<">>, s.currentPosition)
    IN  IF found > -1
        THEN IF startsWith(s.fragment, <<"<", "!", "-", "-">>, found)
             THEN [s EXCEPT !.isInsideComment = TRUE, !.currentPosition = found + 4]
             ELSE [s EXCEPT !.isInsideElement = TRUE,
                            !.currentPosition =
                                SkipWhitespace(s.fragment,
                                    SkipName(s.fragment,
                                        SkipWhitespace(s.fragment, found + 1)))]
        ELSE IF ~isLastFragment
        THEN [s EXCEPT !.fragment = @ \o nodesMarker(svg), !.currentPosition = -1]
        ELSE [s EXCEPT !.currentPosition = -1]

\* one pass of the do-while loop
ScanFragment(s, isLastFragment, svg) ==
    IF s.isInsideComment THEN CommentBranch(s)
    ELSE IF s.isInsideElement THEN ElementBranch(s)
    ELSE TextBranch(s, isLastFragment, svg)

(***************************************************************************)
(* The host's markup parser, which template.innerHTML runs on the          *)
(* processed fragments: the tokenizer.  z = [state, tokens, tag,           *)
(* inAttribute, attribute, data] is the tokenizer after a prefix of the    *)
(* markup: the tokens emitted, the tag, attribute and comment data under   *)
(* construction.  The tokenizer looks two characters ahead for the "--"    *)
(* of a comment; the model takes them one by one and keeps the first "-"   *)
(* in the state MarkupDeclarationOpenDash.                                 *)
(***************************************************************************)
LowerCaseLetters == <<"a", "b", "c", "d", "e", "f", "g", "h", "i", "j", "k", "l", "m", "n", "o", "p", "q", "r", "s", "t", "u", "v", "w", "x", "y", "z">>

UpperCaseLetters == <<"A", "B", "C", "D", "E", "F", "G", "H", "I", "J", "K", "L", "M", "N", "O", "P", "Q", "R", "S", "T", "U", "V", "W", "X", "Y", "Z">>

IsLetter(c) == \E i \in 1..26 : c = LowerCaseLetters[i] \/ c = UpperCaseLetters[i]

toLowerCase(c) ==
    IF \E i \in 1..26 : c = UpperCaseLetters[i]
    THEN LowerCaseLetters[CHOOSE i \in 1..26 : c = UpperCaseLetters[i]]
    ELSE c

Token(type, name, attributes, data) ==
    [type |-> type, name |-> name, attributes |-> attributes, data |-> data]

NoTag == Token("none", <<>>, <<>>, <<>>)

NoAttribute == [name |-> <<>>, value |-> <<>>]

TokenizerStart ==
    [state |-> "Data", tokens |-> <<>>, tag |-> NoTag, inAttribute |-> FALSE,
     attribute |-> NoAttribute, data |-> <<>>]

To(z, state) == [z EXCEPT !.state = state]

\* character tokens in a row are kept as one token
EmitCharacters(z, text) ==
    IF z.tokens # <<>> /\ z.tokens[Len(z.tokens)].type = "character"
    THEN [z EXCEPT !.tokens[Len(z.tokens)].data = @ \o text]
    ELSE [z EXCEPT !.tokens = Append(@, Token("character", <<>>, <<>>, text))]

\* the attribute under construction joins its tag, unless the tag has the name already
FinishAttribute(z) ==
    IF z.inAttribute /\ ~\E i \in 1..Len(z.tag.attributes) :
                             z.tag.attributes[i].name = z.attribute.name
    THEN [z EXCEPT !.tag.attributes = Append(@, z.attribute),
                   !.inAttribute = FALSE, !.attribute = NoAttribute]
    ELSE [z EXCEPT !.inAttribute = FALSE, !.attribute = NoAttribute]

StartAttribute(z, name) ==
    [FinishAttribute(z) EXCEPT !.inAttribute = TRUE,
                               !.attribute = [name |-> name, value |-> <<>>],
                               !.state = "AttributeName"]

EmitTag(z) ==
    [FinishAttribute(z) EXCEPT !.tokens = Append(@, FinishAttribute(z).tag),
                               !.tag = NoTag, !.state = "Data"]

EmitComment(z) ==
    [z EXCEPT !.tokens = Append(@, Token("comment", <<>>, <<>>, z.data)),
              !.data = <<>>, !.state = "Data"]

AppendData(z, text) == [z EXCEPT !.data = @ \o text]

\* the tokenizer z after the next character c of the markup
RECURSIVE TokenizeCharacter(_, _)
TokenizeCharacter(z, c) ==
    LET Consume(y) == y
        Reconsume(y) == TokenizeCharacter(y, c)
    IN  CASE z.state = "Data" ->
                 IF c = "<" THEN Consume(To(z, "TagOpen"))
                 ELSE Consume(EmitCharacters(z, <<c>>))
          [] z.state = "TagOpen" ->
                 IF c = "!" THEN Consume(To(z, "MarkupDeclarationOpen"))
                 ELSE IF c = "/" THEN Consume(To(z, "EndTagOpen"))
                 ELSE IF IsLetter(c)
                 THEN Reconsume([z EXCEPT !.tag = Token("start", <<>>, <<>>, <<>>),
                                          !.state = "TagName"])
                 ELSE IF c = "?" THEN Reconsume(To(z, "BogusComment"))
                 ELSE Reconsume(To(EmitCharacters(z, <<"<">>), "Data"))
          [] z.state = "EndTagOpen" ->
                 IF IsLetter(c)
                 THEN Reconsume([z EXCEPT !.tag = Token("end", <<>>, <<>>, <<>>),
                                          !.state = "TagName"])
                 ELSE IF c = ">" THEN Consume(To(z, "Data"))
                 ELSE Reconsume(To(z, "BogusComment"))
          [] z.state = "TagName" ->
                 IF c \in Whitespace THEN Consume(To(z, "BeforeAttributeName"))
                 ELSE IF c = "/" THEN Consume(To(z, "SelfClosingStartTag"))
                 ELSE IF c = ">" THEN Consume(EmitTag(z))
                 ELSE Consume([z EXCEPT !.tag.name = Append(@, toLowerCase(c))])
          [] z.state = "BeforeAttributeName" ->
                 IF c \in Whitespace THEN Consume(z)
                 ELSE IF c \in {"/", ">"} THEN Reconsume(To(z, "AfterAttributeName"))
                 ELSE IF c = "=" THEN Consume(StartAttribute(z, <<"=">>))
                 ELSE Reconsume(StartAttribute(z, <<>>))
          [] z.state = "AttributeName" ->
                 IF c \in Whitespace \cup {"/", ">"}
                 THEN Reconsume(To(z, "AfterAttributeName"))
                 ELSE IF c = "=" THEN Consume(To(z, "BeforeAttributeValue"))
                 ELSE Consume([z EXCEPT !.attribute.name = Append(@, toLowerCase(c))])
          [] z.state = "AfterAttributeName" ->
                 IF c \in Whitespace THEN Consume(z)
                 ELSE IF c = "/" THEN Consume(To(z, "SelfClosingStartTag"))
                 ELSE IF c = "=" THEN Consume(To(z, "BeforeAttributeValue"))
                 ELSE IF c = ">" THEN Consume(EmitTag(z))
                 ELSE Reconsume(StartAttribute(z, <<>>))
          [] z.state = "BeforeAttributeValue" ->
                 IF c \in Whitespace THEN Consume(z)
                 ELSE IF c = "\"" THEN Consume(To(z, "AttributeValueDoubleQuoted"))
                 ELSE IF c = "'" THEN Consume(To(z, "AttributeValueSingleQuoted"))
                 ELSE IF c = ">" THEN Consume(EmitTag(z))
                 ELSE Reconsume(To(z, "AttributeValueUnquoted"))
          [] z.state = "AttributeValueDoubleQuoted" ->
                 IF c = "\"" THEN Consume(To(z, "AfterAttributeValueQuoted"))
                 ELSE Consume([z EXCEPT !.attribute.value = Append(@, c)])
          [] z.state = "AttributeValueSingleQuoted" ->
                 IF c = "'" THEN Consume(To(z, "AfterAttributeValueQuoted"))
                 ELSE Consume([z EXCEPT !.attribute.value = Append(@, c)])
          [] z.state = "AttributeValueUnquoted" ->
                 IF c \in Whitespace THEN Consume(To(z, "BeforeAttributeName"))
                 ELSE IF c = ">" THEN Consume(EmitTag(z))
                 ELSE Consume([z EXCEPT !.attribute.value = Append(@, c)])
          [] z.state = "AfterAttributeValueQuoted" ->
                 IF c \in Whitespace THEN Consume(To(z, "BeforeAttributeName"))
                 ELSE IF c = "/" THEN Consume(To(z, "SelfClosingStartTag"))
                 ELSE IF c = ">" THEN Consume(EmitTag(z))
                 ELSE Reconsume(To(z, "BeforeAttributeName"))
          [] z.state = "SelfClosingStartTag" ->
                 IF c = ">" THEN Consume(EmitTag(z))
                 ELSE Reconsume(To(z, "BeforeAttributeName"))
          [] z.state = "MarkupDeclarationOpen" ->
                 IF c = "-" THEN Consume(To(z, "MarkupDeclarationOpenDash"))
                 ELSE Reconsume(To(z, "BogusComment"))
          [] z.state = "MarkupDeclarationOpenDash" ->
                 IF c = "-" THEN Consume(To(z, "CommentStart"))
                 ELSE Reconsume(To(AppendData(z, <<"-">>), "BogusComment"))
          [] z.state = "CommentStart" ->
                 IF c = "-" THEN Consume(To(z, "CommentStartDash"))
                 ELSE IF c = ">" THEN Consume(EmitComment(z))
                 ELSE Reconsume(To(z, "Comment"))
          [] z.state = "CommentStartDash" ->
                 IF c = "-" THEN Consume(To(z, "CommentEnd"))
                 ELSE IF c = ">" THEN Consume(EmitComment(z))
                 ELSE Reconsume(To(AppendData(z, <<"-">>), "Comment"))
          [] z.state = "Comment" ->
                 IF c = "-" THEN Consume(To(z, "CommentEndDash"))
                 ELSE Consume(AppendData(z, <<c>>))
          [] z.state = "CommentEndDash" ->
                 IF c = "-" THEN Consume(To(z, "CommentEnd"))
                 ELSE Reconsume(To(AppendData(z, <<"-">>), "Comment"))
          [] z.state = "CommentEnd" ->
                 IF c = ">" THEN Consume(EmitComment(z))
                 ELSE IF c = "!" THEN Consume(To(z, "CommentEndBang"))
                 ELSE IF c = "-" THEN Consume(AppendData(z, <<"-">>))
                 ELSE Reconsume(To(AppendData(z, <<"-", "-">>), "Comment"))
          [] z.state = "CommentEndBang" ->
                 IF c = "-" THEN Consume(To(AppendData(z, <<"-", "-", "!">>), "CommentEndDash"))
                 ELSE IF c = ">" THEN Consume(EmitComment(z))
                 ELSE Reconsume(To(AppendData(z, <<"-", "-", "!">>), "Comment"))
          [] OTHER ->  \* "BogusComment"
                 IF c = ">" THEN Consume(EmitComment(z))
                 ELSE Consume(AppendData(z, <<c>>))

\* the tokenizer z after the characters from..to of the markup m, which it takes
\* half by half
RECURSIVE Tokenize(_, _, _, _)
Tokenize(m, from, to, z) ==
    IF from > to THEN z
    ELSE IF from = to THEN TokenizeCharacter(z, m[from])
    ELSE LET half == (from + to) \div 2
         IN  CHOOSE after \in {Tokenize(m, half + 1, to, first) :
                                  first \in {Tokenize(m, from, half, z)}} : TRUE

CommentStates ==
    {"MarkupDeclarationOpen", "MarkupDeclarationOpenDash", "CommentStart", "CommentStartDash", "Comment",
     "CommentEndDash", "CommentEnd", "CommentEndBang", "BogusComment"}

\* the end of the markup: an open comment is emitted, an open tag is dropped
EndOfFile(z) ==
    IF z.state = "MarkupDeclarationOpenDash" THEN EmitComment(AppendData(z, <<"-">>))
    ELSE IF z.state = "TagOpen" THEN EmitCharacters(z, <<"<">>)
    ELSE IF z.state = "EndTagOpen" THEN EmitCharacters(z, <<"<", "/">>)
    ELSE IF z.state \in CommentStates THEN EmitComment(z)
    ELSE z

TokensOf(markup) == EndOfFile(Tokenize(markup, 1, Len(markup), TokenizerStart)).tokens

(***************************************************************************)
(* The host's markup parser: the tree construction, for the content of a   *)
(* template element.  The tree is the sequence of its nodes in document    *)
(* order; a node names its parent by id, the root (the document fragment)  *)
(* has id 0, and a detached node has the parent DETACHED.                  *)
(***************************************************************************)
ROOT == 0

DETACHED == -1

DomNode(id, nodeType, name, attributes, data, parent) ==
    [id |-> id, nodeType |-> nodeType, name |-> name, attributes |-> attributes,
     data |-> data, parent |-> parent]

\* elements that an end tag of another name does not close
SpecialElements == {<<"p">>, <<"u", "l">>}

\* elements whose start tag closes an open p element
ClosesParagraph == {<<"p">>, <<"u", "l">>}

NodeById(tree, id) == tree[CHOOSE i \in 1..Len(tree) : tree[i].id = id]

CurrentNode(b) == IF b.stack = <<>> THEN ROOT ELSE b.stack[Len(b.stack)]

HasInScope(b, name) ==
    \E i \in 1..Len(b.stack) : NodeById(b.tree, b.stack[i]).name = name

\* pop the stack of open elements up to and including the last element of the name
PopUntil(b, name) ==
    LET last == Maximum({i \in 1..Len(b.stack) : NodeById(b.tree, b.stack[i]).name = name})
    IN  [b EXCEPT !.stack = SubSeq(@, 1, last - 1)]

InsertNode(b, nodeType, name, attributes, data) ==
    [b EXCEPT !.tree = Append(@, DomNode(Len(b.tree) + 1, nodeType, name, attributes,
                                         data, CurrentNode(b)))]

InsertElement(b, token) ==
    [InsertNode(b, ELEMENT_NODE, token.name, token.attributes, <<>>)
        EXCEPT !.stack = Append(@, Len(b.tree) + 1)]

\* text joins the text node that is the last child of the current node
InsertCharacters(b, data) ==
    LET children == {i \in 1..Len(b.tree) : b.tree[i].parent = CurrentNode(b)}
    IN  IF children # {} /\ b.tree[Maximum(children)].nodeType = TEXT_NODE
        THEN [b EXCEPT !.tree[Maximum(children)].data = @ \o data]
        ELSE InsertNode(b, TEXT_NODE, <<>>, <<>>, data)

\* an element in the SVG namespace
InsertForeignElement(b, token) ==
    [InsertElement(b, token) EXCEPT !.foreign = @ \cup {Len(b.tree) + 1}]

\* the first start tag takes the parser from the "in template" insertion mode
\* to "in body"; an svg start tag begins foreign content
StartTagInBody(b, token) ==
    IF token.name = <<"s", "v", "g">>
    THEN InsertForeignElement([b EXCEPT !.inBody = TRUE], token)
    ELSE IF token.name \in ClosesParagraph /\ HasInScope(b, <<"p">>)
    THEN InsertElement([PopUntil(b, <<"p">>) EXCEPT !.inBody = TRUE], token)
    ELSE InsertElement([b EXCEPT !.inBody = TRUE], token)

\* the current node is in the SVG namespace
InForeignContent(b) == b.stack # <<>> /\ CurrentNode(b) \in b.foreign

\* the start tags (of the names the markup here has) that end foreign content
BreakoutElements == {<<"p">>, <<"u", "l">>, <<"s", "p", "a", "n">>}

\* pop the open elements down to the first that is an HTML element
RECURSIVE PopForeign(_)
PopForeign(b) ==
    IF InForeignContent(b) THEN PopForeign([b EXCEPT !.stack = SubSeq(@, 1, Len(@) - 1)])
    ELSE b

\* the tree construction dispatcher, for a start tag
StartTag(b, token) ==
    IF ~InForeignContent(b) THEN StartTagInBody(b, token)
    ELSE IF token.name \in BreakoutElements THEN StartTagInBody(PopForeign(b), token)
    ELSE InsertForeignElement(b, token)

\* an end tag of a name that is not special: the open elements are searched
\* from the current node down to the first special element
RECURSIVE AnyOtherEndTag(_, _, _)
AnyOtherEndTag(b, name, i) ==
    IF i = 0 THEN b
    ELSE IF NodeById(b.tree, b.stack[i]).name = name
    THEN [b EXCEPT !.stack = SubSeq(@, 1, i - 1)]
    ELSE IF NodeById(b.tree, b.stack[i]).name \in SpecialElements THEN b
    ELSE AnyOtherEndTag(b, name, i - 1)

\* the "in template" insertion mode ignores an end tag
EndTagInBody(b, token) ==
    IF ~b.inBody THEN b
    ELSE IF token.name = <<"p">>
    THEN IF HasInScope(b, <<"p">>) THEN PopUntil(b, <<"p">>)
         ELSE InsertNode(b, ELEMENT_NODE, <<"p">>, <<>>, <<>>)
    ELSE IF token.name \in SpecialElements
    THEN IF HasInScope(b, token.name) THEN PopUntil(b, token.name) ELSE b
    ELSE AnyOtherEndTag(b, token.name, Len(b.stack))

\* an end tag in foreign content: the open elements in the SVG namespace are
\* searched from the current node down, and at the first HTML element the end
\* tag is one of HTML content
RECURSIVE ForeignEndTag(_, _, _)
ForeignEndTag(b, token, i) ==
    IF i = 0 \/ b.stack[i] \notin b.foreign THEN EndTagInBody(b, token)
    ELSE IF NodeById(b.tree, b.stack[i]).name = token.name
    THEN [b EXCEPT !.stack = SubSeq(@, 1, i - 1)]
    ELSE ForeignEndTag(b, token, i - 1)

\* the tree construction dispatcher, for an end tag
EndTag(b, token) ==
    IF ~InForeignContent(b) THEN EndTagInBody(b, token)
    ELSE IF token.name = <<"p">> THEN EndTagInBody(PopForeign(b), token)
    ELSE ForeignEndTag(b, token, Len(b.stack))

RECURSIVE BuildTree(_, _, _)
BuildTree(tokenList, i, b) ==
    IF i > Len(tokenList) THEN b
    ELSE LET token == tokenList[i]
         IN  BuildTree(tokenList, i + 1,
                 CASE token.type = "character" -> InsertCharacters(b, token.data)
                   [] token.type = "comment" ->
                          InsertNode(b, COMMENT_NODE, <<>>, <<>>, token.data)
                   [] token.type = "start" -> StartTag(b, token)
                   [] OTHER -> EndTag(b, token))

TreeBuilderStart == [tree |-> <<>>, stack |-> <<>>, inBody |-> FALSE, foreign |-> {}]

\* template.innerHTML = markup; template.content
innerHTML(markup) == BuildTree(TokensOf(markup), 1, TreeBuilderStart).tree

(***************************************************************************)
(* DynamicDocumentTemplateImpl.instantiate: the places with a marker, in   *)
(* document order, become the parts.  r = [tree, parts, thrown] is the     *)
(* instance under construction.                                            *)
(***************************************************************************)
ATTRIBUTE_PART == "ATTRIBUTE_PART"

ELEMENT_PART == "ELEMENT_PART"

NODE_RANGE_PART == "NODE_RANGE_PART"

\* a part is an object: object is 0 until new makes it, then the number that
\* tells it from the other parts of the instance
AttributePart(element, attributeName) ==
    [partType |-> ATTRIBUTE_PART, object |-> 0, element |-> element,
     attributeName |-> attributeName,
     startingBoundary |-> DETACHED, endingBoundary |-> DETACHED]

ElementPart(element) ==
    [partType |-> ELEMENT_PART, object |-> 0, element |-> element, attributeName |-> <<>>,
     startingBoundary |-> DETACHED, endingBoundary |-> DETACHED]

NodeRangePart(start, end) ==
    [partType |-> NODE_RANGE_PART, object |-> 0, element |-> DETACHED, attributeName |-> <<>>,
     startingBoundary |-> start, endingBoundary |-> end]

\* new ...PartImpl(...): an object that is none of those on the list
New(part, partList) == [part EXCEPT !.object = Len(partList) + 1]

hasAttribute(node, name) ==
    \E i \in 1..Len(node.attributes) : node.attributes[i].name = name

getAttribute(node, name) ==
    node.attributes[CHOOSE i \in 1..Len(node.attributes) : node.attributes[i].name = name].value

removeAttribute(node, name) ==
    [node EXCEPT !.attributes = SelectSeq(@, LAMBDA a : a.name # name)]

RECURSIVE LowerCased(_)
LowerCased(s) == IF s = <<>> THEN <<>> ELSE <<toLowerCase(s[1])>> \o LowerCased(Tail(s))

\* instanceFragment.querySelectorAll('[data-dtpp-attributes],[data-dtpp-nodes]')
placesWithDynamicParts(tree) ==
    SelectSeq(tree, LAMBDA node :
        /\ node.nodeType = ELEMENT_NODE
        /\ hasAttribute(node, <<"d", "a", "t", "a", "-", "d", "t", "p", "p", "-", "a", "t", "t", "r", "i", "b", "u", "t", "e", "s">>) \/ hasAttribute(node, <<"d", "a", "t", "a", "-", "d", "t", "p", "p", "-", "n", "o", "d", "e", "s">>))

IndexOfNode(tree, id) == CHOOSE i \in 1..Len(tree) : tree[i].id = id

\* mutant: a part is made for every token, also for one seen before
RECURSIVE PartsForAttributesEachNew(_, _, _, _)
PartsForAttributesEachNew(place, attributes, i, r) ==
    IF i > Len(attributes) \/ r.thrown # "none" THEN r
    ELSE IF attributes[i] = <<>>
    THEN PartsForAttributesEachNew(place, attributes, i + 1,
             [r EXCEPT !.parts = Append(@, New(ElementPart(place.id), @))])
    ELSE IF hasAttribute(place, LowerCased(attributes[i]))
    THEN PartsForAttributesEachNew(place, attributes, i + 1,
             [r EXCEPT !.parts =
                  Append(@, New(AttributePart(place.id, LowerCased(attributes[i])), @))])
    ELSE [r EXCEPT !.thrown = "TypeError"]

\* the parts of one data-dtpp-attributes marker: a token seen before on this
\* place gets the part made for it then (partsForAttributes, each token before
\* the i-th having put one part on the list); else an empty token is a new
\* element part, any other token a new attribute part, which throws a TypeError
\* when the place has no attribute of the name (getAttributeNode gives null)
RECURSIVE PartsForAttributes(_, _, _, _)
PartsForAttributes(place, attributes, i, r) ==
    IF i > Len(attributes) \/ r.thrown # "none" THEN r
    ELSE IF \E j \in 1..(i - 1) : attributes[j] = attributes[i]
    THEN LET j == CHOOSE j \in 1..(i - 1) : attributes[j] = attributes[i]
         IN  PartsForAttributes(place, attributes, i + 1,
                 [r EXCEPT !.parts = Append(@, @[Len(@) - (i - 1) + j])])
    ELSE IF attributes[i] = <<>>
    THEN PartsForAttributes(place, attributes, i + 1,
             [r EXCEPT !.parts = Append(@, New(ElementPart(place.id), @))])
    ELSE IF hasAttribute(place, LowerCased(attributes[i]))
    THEN PartsForAttributes(place, attributes, i + 1,
             [r EXCEPT !.parts =
                  Append(@, New(AttributePart(place.id, LowerCased(attributes[i])), @))])
    ELSE [r EXCEPT !.thrown = "TypeError"]

AttributesPlace(r, id) ==
    LET place == NodeById(r.tree, id)
    IN  IF ~hasAttribute(place, <<"d", "a", "t", "a", "-", "d", "t", "p", "p", "-", "a", "t", "t", "r", "i", "b", "u", "t", "e", "s">>) THEN r
        ELSE LET q == PartsForAttributes(place,
                          split(getAttribute(place, <<"d", "a", "t", "a", "-", "d", "t", "p", "p", "-", "a", "t", "t", "r", "i", "b", "u", "t", "e", "s">>), <<";">>), 1, r)
             IN  IF q.thrown # "none" THEN q
                 ELSE [q EXCEPT !.tree[IndexOfNode(r.tree, id)] =
                                    removeAttribute(@, <<"d", "a", "t", "a", "-", "d", "t", "p", "p", "-", "a", "t", "t", "r", "i", "b", "u", "t", "e", "s">>)]

\* mutant: the start sentinel is put after the end sentinel
NodesPlaceStartLast(r, id) ==
    LET place == NodeById(r.tree, id)
        at == IndexOfNode(r.tree, id)
        start == DomNode(Len(r.tree) + 1, COMMENT_NODE, <<>>, <<>>, <<>>, place.parent)
        end == DomNode(Len(r.tree) + 2, COMMENT_NODE, <<>>, <<>>, <<>>, place.parent)
    IN  IF ~hasAttribute(place, <<"d", "a", "t", "a", "-", "d", "t", "p", "p", "-", "n", "o", "d", "e", "s">>) THEN r
        ELSE IF place.parent = DETACHED THEN [r EXCEPT !.thrown = "TypeError"]
        ELSE [r EXCEPT !.tree = SubSeq(r.tree, 1, at - 1) \o <<end, start>>
                                    \o <<[place EXCEPT !.parent = DETACHED]>>
                                    \o SubSeq(r.tree, at + 1, Len(r.tree)),
                       !.parts = Append(@, New(NodeRangePart(start.id, end.id), @))]

\* place.parentNode.replaceChild(end, place); end.parentNode.insertBefore(start, end)
NodesPlace(r, id) ==
    LET place == NodeById(r.tree, id)
        at == IndexOfNode(r.tree, id)
        start == DomNode(Len(r.tree) + 1, COMMENT_NODE, <<>>, <<>>, <<>>, place.parent)
        end == DomNode(Len(r.tree) + 2, COMMENT_NODE, <<>>, <<>>, <<>>, place.parent)
    IN  IF ~hasAttribute(place, <<"d", "a", "t", "a", "-", "d", "t", "p", "p", "-", "n", "o", "d", "e", "s">>) THEN r
        ELSE IF place.parent = DETACHED THEN [r EXCEPT !.thrown = "TypeError"]
        ELSE [r EXCEPT !.tree = SubSeq(r.tree, 1, at - 1) \o <<start, end>>
                                    \o <<[place EXCEPT !.parent = DETACHED]>>
                                    \o SubSeq(r.tree, at + 1, Len(r.tree)),
                       !.parts = Append(@, New(NodeRangePart(start.id, end.id), @))]

RECURSIVE Places(_, _, _)
Places(places, i, r) ==
    IF i > Len(places) \/ r.thrown # "none" THEN r
    ELSE LET q == AttributesPlace(r, places[i].id)
         IN  Places(places, i + 1, IF q.thrown # "none" THEN q ELSE NodesPlace(q, places[i].id))

instantiate(content) ==
    Places(placesWithDynamicParts(content), 1,
           [tree |-> content, parts |-> <<>>, thrown |-> "none"])

(***************************************************************************)
(* The document fragments and the instances.  The content of the template  *)
(* is the fragment of identity 0; cloneNode makes the fragments of the     *)
(* identities from 1.  An instance is its fragment with the properties     *)
(* that instantiate assigns to it; the attribute nodes that a part took    *)
(* off its element are kept with the instance.                             *)
(***************************************************************************)
\* mutant: the content of the template itself is handed out, without a copy
cloneNodeShared(content, made) == [clones |-> made, identity |-> 0]

\* this.parsedTemplate.cloneNode(true)
cloneNode(content, made) == [clones |-> Append(made, content), identity |-> Len(made) + 1]

TreeOf(identity) == IF identity = 0 THEN parsedTemplate ELSE clones[identity]

\* Node.childNodes, in sibling order
ChildNodes(tree, parent) == SelectSeq(tree, LAMBDA node : node.parent = parent)

\* mutant: the list starts empty
NoTrackedNodes(tree) == <<>>

\* new LiveRootNodeListImpl(instanceFragment): this.trackedNodes, as node ids
LiveRootNodeList(tree) ==
    [i \in 1..Len(ChildNodes(tree, ROOT)) |-> ChildNodes(tree, ROOT)[i].id]

\* LiveRootNodeListImpl.entries / values / [Symbol.iterator]
RootNodesEntries(rootNodes) == rootNodes

(***************************************************************************)
(* DynamicTemplateAttributePartImpl.value.  f = [tree, removedAttributes,  *)
(* error] is the instance that the operation runs on.  The strings handed  *)
(* to parts are one character long.                                        *)
(***************************************************************************)
NullValue == [kind |-> "null", str |-> "", num |-> 0, node |-> NULL]

Characters(s) == <<s>>

IsRemoved(f, part) ==
    \E a \in f.removedAttributes : a.element = part.element /\ a.name = part.attributeName

RemovedAttribute(f, part) ==
    CHOOSE a \in f.removedAttributes : a.element = part.element /\ a.name = part.attributeName

\* get value(): this.attribute.value
AttributePartValue(f, part) ==
    IF IsRemoved(f, part) THEN RemovedAttribute(f, part).value
    ELSE getAttribute(NodeById(f.tree, part.element), part.attributeName)

\* this.attribute.value = value, for an attribute node on or off its element
SetAttributeNodeValue(f, part, text) ==
    IF IsRemoved(f, part)
    THEN [f EXCEPT !.removedAttributes =
              (@ \ {RemovedAttribute(f, part)})
                  \cup {[RemovedAttribute(f, part) EXCEPT !.value = text]}]
    ELSE LET attributes == NodeById(f.tree, part.element).attributes
         IN  [f EXCEPT !.tree[IndexOfNode(f.tree, part.element)].attributes =
                 [i \in 1..Len(attributes) |->
                     IF attributes[i].name = part.attributeName
                     THEN [name |-> attributes[i].name, value |-> text]
                     ELSE attributes[i]]]

\* this.element.setAttributeNode(this.attribute): an attribute node that is off
\* the element is appended to its attributes
setAttributeNode(f, part) ==
    IF ~IsRemoved(f, part) THEN f
    ELSE [f EXCEPT !.tree[IndexOfNode(f.tree, part.element)].attributes =
                       Append(@, [name |-> part.attributeName,
                                  value |-> RemovedAttribute(f, part).value]),
                   !.removedAttributes = @ \ {RemovedAttribute(f, part)}]

\* this.element.removeAttributeNode(this.attribute)
removeAttributeNode(f, part) ==
    IF IsRemoved(f, part) THEN [f EXCEPT !.error = "NotFoundError"]
    ELSE [f EXCEPT !.tree[IndexOfNode(f.tree, part.element)] =
                       removeAttribute(@, part.attributeName),
                   !.removedAttributes =
                       @ \cup {[element |-> part.element, name |-> part.attributeName,
                                value |-> AttributePartValue(f, part)]}]

\* mutant: an attribute that was taken off the element stays off
SetValueDetached(f, part, v) ==
    IF v.kind = "string"
    THEN SetAttributeNodeValue(f, part, Characters(v.str))
    ELSE IF hasAttribute(NodeById(f.tree, part.element), part.attributeName)
    THEN removeAttributeNode(f, part)
    ELSE f

\* set value(value)
SetValue(f, part, v) ==
    IF v.kind = "string"
    THEN setAttributeNode(SetAttributeNodeValue(f, part, Characters(v.str)), part)
    ELSE IF hasAttribute(NodeById(f.tree, part.element), part.attributeName)
    THEN removeAttributeNode(f, part)
    ELSE f

(***************************************************************************)
(* DynamicTemplateNodeRangePartImpl.replaceWith on a part of an instance:  *)
(* the parent of the starting boundary is the host of the reconciler, its  *)
(* children are the host's children, and the children that the call leaves *)
(* are put back into the tree of the instance.                             *)
(***************************************************************************)
RECURSIVE TextOf(_)
TextOf(data) == IF data = <<>> THEN "" ELSE data[1] \o TextOf(Tail(data))

\* a node of an instance, as the node range sees it
HostNode(node) ==
    [nodeType |-> node.nodeType,
     nodeValue |-> IF node.nodeType = TEXT_NODE THEN TextOf(node.data) ELSE "",
     id |-> node.id]

HostNodes(seq) == [i \in 1..Len(seq) |-> HostNode(seq[i])]

\* the children of the parent of the starting boundary
HostTree(tree, part) ==
    LET parent == NodeById(tree, part.startingBoundary).parent
    IN  [p \in Parents |->
            IF parent = DETACHED THEN <<>> ELSE HostNodes(ChildNodes(tree, parent))]

\* new NodeRangeImpl(start, end)
HostRange(tree, part) ==
    [startingBoundary |-> HostNode(NodeById(tree, part.startingBoundary)),
     endingBoundary |-> HostNode(NodeById(tree, part.endingBoundary))]

\* the nodes of the tree from the node of the id down, in document order
RECURSIVE Subtree(_, _)
RECURSIVE Subtrees(_, _, _)
Subtree(tree, id) == Subtrees(tree, ChildNodes(tree, id), 1)

Subtrees(tree, children, i) ==
    IF i > Len(children) THEN <<>>
    ELSE <<children[i]>> \o Subtree(tree, children[i].id) \o Subtrees(tree, children, i + 1)

\* the tree in document order: the nodes under the root, then the nodes that
\* are in no tree, each with the nodes under it
DocumentOrder(tree) == Subtree(tree, ROOT) \o Subtree(tree, DETACHED)

\* the tree with the children of the parent replaced by the host's children:
\* a host node that was a child is that child, any other is a new text node
WithChildNodes(tree, parent, hostNodes) ==
    LET children == ChildNodes(tree, parent)
        isOld(h) == \E i \in 1..Len(children) : HostNode(children[i]) = h
        old(h) == children[CHOOSE i \in 1..Len(children) : HostNode(children[i]) = h]
        created == SelectSeq(hostNodes, LAMBDA h : ~isOld(h))
        new(h) == DomNode(Len(tree) + IndexOf(created, h), TEXT_NODE, <<>>, <<>>,
                          Characters(h.nodeValue), parent)
        others == [i \in 1..Len(tree) |->
                      IF tree[i].parent = parent THEN [tree[i] EXCEPT !.parent = DETACHED]
                      ELSE tree[i]]
        kept == SelectSeq(others, LAMBDA node :
                    ~\E i \in 1..Len(hostNodes) : isOld(hostNodes[i]) /\ old(hostNodes[i]).id = node.id)
    IN  DocumentOrder(kept \o [i \in 1..Len(hostNodes) |->
                                   IF isOld(hostNodes[i]) THEN old(hostNodes[i])
                                   ELSE new(hostNodes[i])])

\* part.replaceWith(...values)
PartReplaceWith(f, part, values) ==
    LET parent == NodeById(f.tree, part.startingBoundary).parent
        r == replaceWith(HostTree(f.tree, part), HostRange(f.tree, part), values)
    IN  IF parent = DETACHED THEN [f EXCEPT !.error = r.error]
        ELSE [f EXCEPT !.tree = WithChildNodes(f.tree, parent, r.tree["host"]),
                       !.error = r.error]

(***************************************************************************)
(* templateProcessor (todomvc): the processor that the callers hand to     *)
(* instantiate.  It gives each part the value of its index; the values     *)
(* here are all the one string.                                            *)
(***************************************************************************)
RECURSIVE templateProcessor(_, _, _, _)
templateProcessor(f, partList, i, value) ==
    IF i > Len(partList) \/ f.error # "none" THEN f
    ELSE templateProcessor(
             CASE partList[i].partType = ATTRIBUTE_PART -> SetValue(f, partList[i], value)
               [] partList[i].partType = NODE_RANGE_PART ->
                      PartReplaceWith(f, partList[i], <<value>>)
               [] OTHER -> f,
             partList, i + 1, value)

(***************************************************************************)
(* The fragment sequences handed to createDynamicTemplate: markup of up    *)
(* to MaxNodes top-level nodes, each of one of the shapes below, cut into  *)
(* fragments by up to MaxHoles placeholders.  A shape is a sequence of     *)
(* pieces, and a placeholder stands between two pieces, before the first   *)
(* or after the last.                                                      *)
(***************************************************************************)
NodeShapes ==
    { <<<<"<", "!", "-", "-">>, <<"c">>, <<"-", "-", ">">>>>,
      <<<<"<", "p">>, <<" ", "c", "=", "\"">>, <<"a">>, <<"\"">>, <<">">>, <<"<", "/", "p", ">">>>>,
      <<<<"<", "p">>, <<" ", "c", "=", "\"", ">", "\"">>, <<">">>, <<"<", "/", "p", ">">>>>,
      <<<<"<", "p">>, <<" ", "c", "=", "\"">>, <<"x", "=">>, <<"\"">>, <<">">>, <<"<", "/", "p", ">">>>>,
      <<<<"t">>>>,
      <<<<"<", "u", "l">>, <<">">>, <<"<", "/", "u", "l", ">">>>>,
      <<<<"<", "g">>, <<">">>, <<"<", "/", "g", ">">>>> }

RECURSIVE PieceLists(_)
PieceLists(n) ==
    IF n = 0 THEN {<<>>}
    ELSE LET shorter == PieceLists(n - 1)
         IN  shorter \cup {list \o shape : list \in shorter, shape \in NodeShapes}

\* the pieces from..to of the list, as one string
RECURSIVE Concatenate(_, _, _)
Concatenate(pieces, from, to) ==
    IF from > to THEN <<>> ELSE pieces[from] \o Concatenate(pieces, from + 1, to)

\* the fragments the cuts make of the pieces; a cut c stands after c pieces
RECURSIVE FragmentsOf(_, _, _)
FragmentsOf(pieces, from, cuts) ==
    IF cuts = {} THEN <<Concatenate(pieces, from + 1, Len(pieces))>>
    ELSE <<Concatenate(pieces, from + 1, Minimum(cuts))>>
             \o FragmentsOf(pieces, Minimum(cuts), cuts \ {Minimum(cuts)})

\* the sets of up to n cuts of a list of so many pieces
RECURSIVE CutsUpTo(_, _)
CutsUpTo(pieceCount, n) ==
    IF n = 0 THEN {{}}
    ELSE LET fewer == CutsUpTo(pieceCount, n - 1)
         IN  fewer \cup {cuts \cup {cut} : cuts \in fewer, cut \in 0..pieceCount}

FragmentLists ==
    UNION {{FragmentsOf(pieces, 0, cuts) : cuts \in CutsUpTo(Len(pieces), MaxHoles)} :
              pieces \in PieceLists(MaxNodes) \ {<<>>}}

(***************************************************************************)
(* createDynamicTemplate and instantiate as a state machine: one call of   *)
(* createDynamicTemplate on a fragment sequence, scanned one pass of the   *)
(* do-while loop at a time, the template compiled from the processed       *)
(* fragments, and one instance made of it.                                 *)
(***************************************************************************)
ScannerState ==
    [fragment |-> fragment, currentPosition |-> currentPosition,
     isInsideElement |-> isInsideElement, isInsideComment |-> isInsideComment,
     currentDynamicAttributes |-> currentDynamicAttributes, thrown |-> "none"]

\* createDynamicTemplate is called with one of the fragment sequences
CalledWith(fragmentLists) ==
    /\ ReconcilerIdle
    /\ htmlFragments \in fragmentLists
    /\ status = "called"
    /\ thrown = "none"
    /\ thrownAt = -1
    /\ isSvg = FALSE
    /\ fragmentIndex = 0
    /\ fragment = <<>>
    /\ currentPosition = 0
    /\ isInsideElement = FALSE
    /\ isInsideComment = FALSE
    /\ currentDynamicAttributes = <<>>
    /\ processedFragments = <<>>
    /\ parsedTemplate = <<>>
    /\ templates = <<>>
    /\ scannerRuns = 0
    /\ parserRuns = 0
    /\ clones = <<>>
    /\ instances = <<>>
    /\ invocations = <<>>
    /\ operation = NoOperation
    /\ operations = 0

\* markup with no element name after its first "<"
InvalidMarkupLists ==
    { <<<<"<", ">">>>>,
      <<<<"t", "<">>, <<">">>>>,
      <<<<"t">>, <<"<", "/", "p", ">">>>>,
      <<<<"<">>, <<" ", "=", "a", ">">>>>,
      <<<<"t", " ", "<">>>>,
      <<<<"<", " ", " ">>>>,
      <<<<"<", ":", "a", ">">>, <<"t">>>> }

\* placeholders at and after attribute values without quotes
UnquotedValueLists ==
    { <<<<"<", "p", " ", "c", "=">>, <<">", "<", "/", "p", ">">>>>,
      <<<<"<", "p", " ", "c", "=", "a">>, <<">", "<", "/", "p", ">">>>>,
      <<<<"<", "p", " ", "c", "=", "a", " ">>, <<">", "<", "/", "p", ">">>>>,
      <<<<"<", "p", " ", "c", "=", " ", "\"">>, <<"\"", ">", "<", "/", "p", ">">>>> }

\* the one empty string
EmptyFragmentLists == {<<<<>>>>}

InitScan ==
    CalledWith(FragmentLists \cup {<<>>} \cup InvalidMarkupLists \cup UnquotedValueLists
                   \cup EmptyFragmentLists)

\* mutant: the fragments are not counted
AnyFragmentsGiven(fragments) == FALSE

\* !htmlFragments.length || (htmlFragments.length === 1 && !htmlFragments): an
\* array is never falsy
NoFragmentsGiven(fragments) ==
    Len(fragments) = 0 \/ (Len(fragments) = 1 /\ FALSE)

\* document.createDynamicTemplate(...htmlFragments), up to the first fragment;
\* htmlFragments.map scans nothing when there is no fragment
CreateDynamicTemplate ==
    /\ status = "called"
    /\ IF NoFragmentsGiven(htmlFragments)
       THEN /\ status' = "failed"
            /\ thrown' = "NoFragments"
            /\ UNCHANGED <<thrownAt, isSvg, fragment>>
       ELSE IF DetectNamespace(htmlFragments) = "InvalidMarkup"
       THEN /\ status' = "failed"
            /\ thrown' = "InvalidMarkup"
            /\ thrownAt' = firstElementStart(htmlFragments)
            /\ UNCHANGED <<isSvg, fragment>>
       ELSE /\ status' = IF htmlFragments = <<>> THEN "scanned" ELSE "scanning"
            /\ isSvg' = (DetectNamespace(htmlFragments) = "svg")
            /\ fragment' = IF htmlFragments = <<>> THEN <<>> ELSE htmlFragments[1]
            /\ UNCHANGED <<thrown, thrownAt>>
    /\ scannerRuns' = IF status' = "failed" THEN scannerRuns ELSE scannerRuns + 1
    /\ UNCHANGED <<htmlFragments, fragmentIndex, currentPosition, isInsideElement,
                   isInsideComment, currentDynamicAttributes, processedFragments,
                   parsedTemplate, templates, parserRuns>>
    /\ UNCHANGED ivars
    /\ UNCHANGED rvars

\* one pass of the do-while loop over the current fragment, and after the last
\* pass the step of htmlFragments.map to the next fragment
Scan ==
    /\ status = "scanning"
    /\ \E s \in {ScanFragment(ScannerState, fragmentIndex = Len(htmlFragments) - 1, isSvg)} :
          /\ isInsideElement' = s.isInsideElement
          /\ isInsideComment' = s.isInsideComment
          /\ currentDynamicAttributes' = s.currentDynamicAttributes
          /\ thrown' = s.thrown
          /\ IF s.thrown # "none"
             THEN /\ status' = "failed"
                  /\ UNCHANGED <<fragment, currentPosition, fragmentIndex, processedFragments>>
             ELSE IF s.currentPosition > -1
             THEN /\ fragment' = s.fragment
                  /\ currentPosition' = s.currentPosition
                  /\ UNCHANGED <<status, fragmentIndex, processedFragments>>
             ELSE /\ processedFragments' = Append(processedFragments, s.fragment)
                  /\ currentPosition' = 0
                  /\ IF fragmentIndex = Len(htmlFragments) - 1
                     THEN /\ status' = "scanned"
                          /\ fragment' = s.fragment
                          /\ UNCHANGED fragmentIndex
                     ELSE /\ fragmentIndex' = fragmentIndex + 1
                          /\ fragment' = htmlFragments[fragmentIndex + 2]
                          /\ UNCHANGED status
    /\ UNCHANGED <<htmlFragments, thrownAt, isSvg, parsedTemplate, templates, scannerRuns,
                   parserRuns>>
    /\ UNCHANGED ivars
    /\ UNCHANGED rvars

\* the children of the svg root take its place
UnwrapSvgRoot(tree) ==
    LET roots == {i \in 1..Len(tree) : tree[i].nodeType = ELEMENT_NODE /\ tree[i].parent = ROOT}
        svgRoot == tree[Minimum(roots)]
    IN  [i \in 1..Len(tree) |->
            IF tree[i].parent = svgRoot.id THEN [tree[i] EXCEPT !.parent = ROOT]
            ELSE IF tree[i].id = svgRoot.id THEN [tree[i] EXCEPT !.parent = DETACHED]
            ELSE tree[i]]

Compile ==
    /\ status = "scanned"
    /\ parsedTemplate' =
           IF isSvg
           THEN UnwrapSvgRoot(innerHTML(<<"<", "s", "v", "g", ">">> \o join(processedFragments, <<>>) \o <<"<", "/", "s", "v", "g", ">">>))
           ELSE innerHTML(join(processedFragments, <<>>))
    /\ parserRuns' = parserRuns + 1
    /\ templates' = Append(templates, Len(templates) + 1)
    /\ status' = "compiled"
    /\ UNCHANGED <<htmlFragments, thrown, thrownAt, isSvg, fragmentIndex, fragment, currentPosition,
                   isInsideElement, isInsideComment, currentDynamicAttributes,
                   processedFragments, scannerRuns>>
    /\ UNCHANGED ivars
    /\ UNCHANGED rvars

\* the instance of the index as the operations on its parts see it
InstanceState(i) ==
    [tree |-> TreeOf(instances[i].fragment),
     removedAttributes |-> instances[i].removedAttributes, error |-> "none"]

\* the tree becomes the tree of the fragment of the identity
StoreTree(made, identity, tree) ==
    /\ clones' = IF identity = 0 THEN made ELSE [made EXCEPT ![identity] = tree]
    /\ parsedTemplate' = IF identity = 0 THEN tree ELSE parsedTemplate

NoProcessor == "null"

Processors == {"templateProcessor"}

\* the values that a caller hands to the processor, the same for every part
ProcessorArguments == {StringValue("a"), StringValue("b")}

\* instantiate(), or instantiate(processor, processorArguments)
InstantiateCalls ==
    {[processor |-> NoProcessor, processorArguments |-> NullValue]}
        \cup {[processor |-> p, processorArguments |-> a] :
                 p \in Processors, a \in ProcessorArguments}

\* mutant: the processor is called when the parts are not yet on the instance
ProcessorCalledEarly(log, call, made, partList) ==
    IF call.processor = NoProcessor THEN log
    ELSE Append(log, [processor |-> call.processor, instance |-> made + 1,
                      processorArguments |-> call.processorArguments, parts |-> <<>>])

\* if (processor) { processor(instance, processorArguments) }: the call, with
\* the instance it is handed (the one made next) and the parts on the instance
ProcessorCalled(log, call, made, partList) ==
    IF call.processor = NoProcessor THEN log
    ELSE Append(log, [processor |-> call.processor, instance |-> made + 1,
                      processorArguments |-> call.processorArguments, parts |-> partList])

\* template.instantiate(processor, processorArguments)
Instantiate ==
    /\ status \in {"compiled", "instantiated"}
    /\ Len(instances) < MaxInstances
    /\ \E call \in InstantiateCalls :
          \E clone \in {cloneNode(parsedTemplate, clones)} :
          \E r \in {instantiate(parsedTemplate)} :
          \E f \in {IF call.processor = NoProcessor \/ r.thrown # "none"
                    THEN [tree |-> r.tree, removedAttributes |-> {}, error |-> r.thrown]
                    ELSE templateProcessor([tree |-> r.tree, removedAttributes |-> {},
                                            error |-> "none"],
                                           r.parts, 1, call.processorArguments)} :
             /\ StoreTree(clone.clones, clone.identity, f.tree)
             /\ thrown' = f.error
             /\ status' = IF f.error = "none" THEN "instantiated" ELSE "instantiateFailed"
             /\ instances' =
                    IF f.error # "none" THEN instances
                    ELSE Append(instances,
                                [fragment |-> clone.identity,
                                 processor |-> call.processor,
                                 parts |-> r.parts,
                                 rootNodes |-> LiveRootNodeList(r.tree),
                                 removedAttributes |-> f.removedAttributes])
             /\ invocations' =
                    IF r.thrown # "none" THEN invocations
                    ELSE ProcessorCalled(invocations, call, Len(instances), r.parts)
    /\ UNCHANGED <<htmlFragments, thrownAt, isSvg, fragmentIndex, fragment, currentPosition,
                   isInsideElement, isInsideComment, currentDynamicAttributes,
                   processedFragments, templates, scannerRuns, parserRuns,
                   operation, operations>>
    /\ UNCHANGED rvars

NextScan ==
    \/ CreateDynamicTemplate
    \/ Scan
    \/ Compile
    \/ Instantiate

SpecScan == InitScan /\ [][NextScan]_vars

(***************************************************************************)
(* The instances in use: a caller compiles a template, makes instances of  *)
(* it, with or without a processor, and sets values of attribute parts and *)
(* replaces the nodes of node-range parts.  The templates have a           *)
(* placeholder in an attribute value and one in top-level text; two in one *)
(* attribute value; one in the content of an element; one in top-level     *)
(* text after text, and one in a tag.                                      *)
(***************************************************************************)
InstanceFragmentLists ==
    { <<<<"<", "p", " ", "c", "=", "\"">>, <<"\"", ">", "<", "/", "p", ">">>, <<>>>>,
      <<<<"<", "p", " ", "c", "=", "\"">>, <<" ">>, <<"\"", ">", "t", "<", "/", "p", ">">>>>,
      <<<<"<", "u", "l", ">">>, <<"<", "/", "u", "l", ">", "t">>>>,
      <<<<"t">>, <<"<", "p", " ">>, <<">", "<", "/", "p", ">">>>> }

InitInstance == CalledWith(InstanceFragmentLists)

scanvars == <<htmlFragments, status, thrown, thrownAt, isSvg, fragmentIndex, fragment, currentPosition,
              isInsideElement, isInsideComment, currentDynamicAttributes,
              processedFragments>>

\* document.createDynamicTemplate(...htmlFragments) once more, with the fragments
\* of the call that returned the template
CreateDynamicTemplateAgain ==
    /\ status = "compiled"
    /\ Len(templates) < MaxCalls
    /\ status' = "called"
    /\ isSvg' = FALSE
    /\ fragmentIndex' = 0
    /\ fragment' = <<>>
    /\ currentPosition' = 0
    /\ isInsideElement' = FALSE
    /\ isInsideComment' = FALSE
    /\ currentDynamicAttributes' = <<>>
    /\ processedFragments' = <<>>
    /\ UNCHANGED <<htmlFragments, thrown, thrownAt, parsedTemplate, templates, scannerRuns,
                   parserRuns>>
    /\ UNCHANGED ivars
    /\ UNCHANGED rvars

\* the values a caller assigns to the value of an attribute part
AttributeValues == {StringValue(s) : s \in Strings} \cup {NullValue}

\* the argument lists of the caller's replaceWith calls on the parts of instances
PartValueLists == SeqsUpTo({StringValue(s) : s \in Strings}, MaxValues)

\* an operation of the caller on the part k of the instance i, which leaves f
Operate(kind, i, k, values, f) ==
    /\ StoreTree(clones, instances[i].fragment, f.tree)
    /\ instances' = [instances EXCEPT ![i].removedAttributes = f.removedAttributes]
    /\ operation' = [kind |-> kind, instance |-> i, part |-> k, values |-> values,
                     error |-> f.error, before |-> InstanceState(i)]
    /\ operations' = operations + 1
    /\ UNCHANGED <<scanvars, templates, scannerRuns, parserRuns, invocations>>
    /\ UNCHANGED rvars

\* instance.parts[k].value = v
SetPartValue(i, k, v) ==
    /\ status = "instantiated"
    /\ operations < MaxOperations
    /\ instances[i].parts[k].partType = ATTRIBUTE_PART
    /\ Operate("value", i, k, <<v>>, SetValue(InstanceState(i), instances[i].parts[k], v))

\* instance.parts[k].replaceWith(...values)
ReplacePartNodes(i, k, values) ==
    /\ status = "instantiated"
    /\ operations < MaxOperations
    /\ instances[i].parts[k].partType = NODE_RANGE_PART
    /\ \E f \in {PartReplaceWith(InstanceState(i), instances[i].parts[k], values)} :
          Operate("replaceWith", i, k, values, f)

NextInstance ==
    \/ NextScan
    \/ CreateDynamicTemplateAgain
    \/ \E i \in 1..Len(instances) : \E k \in 1..Len(instances[i].parts) :
          \E v \in AttributeValues : SetPartValue(i, k, v)
    \/ \E i \in 1..Len(instances) : \E k \in 1..Len(instances[i].parts) :
          \E values \in PartValueLists : ReplacePartNodes(i, k, values)

SpecInstance == InitInstance /\ [][NextInstance]_vars

(***************************************************************************)
(* Properties of the scanner, the compiler and the materializer.  Where    *)
(* a placeholder stands in the markup is what the host's tokenizer says    *)
(* of the markup before it, a letter standing for each earlier placeholder.*)
(***************************************************************************)
\* the tree and the parts of the first instance
instance == IF instances = <<>> THEN <<>> ELSE TreeOf(instances[1].fragment)

parts == IF instances = <<>> THEN <<>> ELSE instances[1].parts

PlaceholderCount == Len(htmlFragments) - 1

MarkupBefore(k) == join(SubSeq(htmlFragments, 1, k), <<"x">>)

TokenizerAt(k) == Tokenize(MarkupBefore(k), 1, Len(MarkupBefore(k)), TokenizerStart)

AttributeValueStates ==
    {"BeforeAttributeValue", "AttributeValueDoubleQuoted", "AttributeValueSingleQuoted",
     "AttributeValueUnquoted"}

PlaceholderContext(k) ==
    LET z == TokenizerAt(k)
    IN  IF z.state = "Data" THEN "text"
        ELSE IF z.state \in CommentStates THEN "comment"
        ELSE IF z.tag.type # "start" THEN "other"
        ELSE IF z.state \in AttributeValueStates THEN "attribute"
        ELSE "tag"

\* an instance was made, and no processor has run on it
Instantiated == status = "instantiated" /\ instances[1].processor = NoProcessor

\* the elements of the tree that the markup names, the marker elements aside
MarkupElements(tree) ==
    SelectSeq(tree, LAMBDA node :
        node.nodeType = ELEMENT_NODE /\ node.name # markerElement(isSvg))

\* the id of the n-th element that the markup names, in the instance
ElementOfInstance(n) ==
    IF n >= 1 /\ n <= Len(MarkupElements(instance))
    THEN MarkupElements(instance)[n].id ELSE DETACHED

StartTags(tokenList) == SelectSeq(tokenList, LAMBDA token : token.type = "start")

\* the element whose tag the k-th placeholder stands in
ElementOfPlaceholder(k) == ElementOfInstance(Len(StartTags(TokenizerAt(k).tokens)) + 1)

\* the element whose content the k-th placeholder stands in, or the root
ParentOfPlaceholder(k) ==
    LET b == BuildTree(TokenizerAt(k).tokens, 1, TreeBuilderStart)
    IN  IF b.stack = <<>> THEN ROOT
        ELSE ElementOfInstance(Cardinality({i \in 1..Len(b.tree) :
                 b.tree[i].nodeType = ELEMENT_NODE /\ b.tree[i].id <= CurrentNode(b)}))

\* the span of the part is empty and lies in the parent
EmptySpanIn(part, parent) ==
    /\ \E i \in 1..(Len(instance) - 1) :
          /\ instance[i].id = part.startingBoundary
          /\ instance[i + 1].id = part.endingBoundary
          /\ instance[i].parent = parent
          /\ instance[i + 1].parent = parent

PartOfPlaceholder(k) ==
    /\ k <= Len(parts)
    /\ PlaceholderContext(k) = "attribute" =>
          /\ parts[k].partType = ATTRIBUTE_PART
          /\ parts[k].attributeName = TokenizerAt(k).attribute.name
          /\ parts[k].element = ElementOfPlaceholder(k)
    /\ PlaceholderContext(k) = "tag" =>
          /\ parts[k].partType = ELEMENT_PART
          /\ parts[k].element = ElementOfPlaceholder(k)
    /\ PlaceholderContext(k) = "text" =>
          /\ parts[k].partType = NODE_RANGE_PART
          /\ EmptySpanIn(parts[k], ParentOfPlaceholder(k))

\* C2: an instance of a template that createDynamicTemplate accepted has as
\* many parts as the fragment sequence has placeholders.
C2_OnePartPerPlaceholder == Instantiated => Len(parts) = PlaceholderCount

\* C3: the k-th part of an instance is the part of the k-th placeholder: an
\* attribute part of the element and the attribute whose value the placeholder
\* stands in, an element part of the element whose tag it stands in, or a
\* node-range part with an empty span where it stands in text.
C3_PartsFollowPlaceholders ==
    (/\ Instantiated
     /\ \A k \in 1..PlaceholderCount : PlaceholderContext(k) \in {"attribute", "tag", "text"})
    => \A k \in 1..PlaceholderCount : PartOfPlaceholder(k)

\* C10: a fragment sequence with a placeholder inside a comment makes
\* createDynamicTemplate fail with the unterminated-comment error, and no
\* template is made.
C10_CommentPlaceholderRejected ==
    (/\ status \notin {"called", "scanning"}
     /\ \E k \in 1..PlaceholderCount : PlaceholderContext(k) = "comment")
    => /\ status = "failed"
       /\ thrown = "UnterminatedComment"
       /\ parsedTemplate = <<>>

(***************************************************************************)
(* Properties of the compiled templates, the instances and their parts.    *)
(***************************************************************************)
\* C11: the second call of createDynamicTemplate on a fragment sequence
\* returns the template that the first call returned, and neither the scanner
\* nor the host's markup parser runs a second time.
C11_CompilationIsCached ==
    Len(templates) = 2 =>
        /\ templates[1] = templates[2]
        /\ scannerRuns = 1
        /\ parserRuns = 1

\* what the caller can see of the instance of the index
InstanceView(i) ==
    [tree |-> TreeOf(instances[i].fragment), parts |-> instances[i].parts,
     removedAttributes |-> instances[i].removedAttributes]

\* the step is an operation of the caller on a part of the instance of the index
OperatesOn(i) == operations' = operations + 1 /\ operation'.instance = i

\* C12: a step that is not an operation on a part of an instance (an
\* operation on a part of another instance, or the making of another instance
\* and the run of its processor) leaves the tree, the attributes and the
\* spans of the instance as they are.
C12_InstancesAreIndependent ==
    [][\A i \in 1..Len(instances) : ~OperatesOn(i) => InstanceView(i)' = InstanceView(i)]_vars

C12_Witness ==
    /\ Len(instances) = 2
    /\ operations = MaxOperations
    /\ operation.instance = 1
    /\ operation.kind = "replaceWith"
    /\ operation.before.tree # TreeOf(instances[1].fragment)
    /\ TreeOf(instances[1].fragment) # TreeOf(instances[2].fragment)

PartKinds(i) == [k \in 1..Len(instances[i].parts) |-> instances[i].parts[k].partType]

\* C13: once a template is compiled its static tree never changes, whatever
\* instantiate and the operations on parts do, and every instance has the
\* number and the kinds of parts of the first.
C13_StaticTreeIsKept ==
    [][/\ templates # <<>> => parsedTemplate' = parsedTemplate
       /\ \A i \in 1..Len(instances') : PartKinds(i)' = PartKinds(1)']_vars

C13_Witness ==
    /\ Len(instances) = 2
    /\ operations = MaxOperations
    /\ operation.before.tree # TreeOf(instances[operation.instance].fragment)
    /\ Len(instances[2].parts) = 2
    /\ \E node \in Range(parsedTemplate) : hasAttribute(node, <<"d", "a", "t", "a", "-", "d", "t", "p", "p", "-", "n", "o", "d", "e", "s">>)

\* the calls of processors with the instance of the index
InvocationsOf(i) == SelectSeq(invocations, LAMBDA call : call.instance = i)

\* C14: an instance made with a processor has had that processor called
\* exactly once when instantiate returns it, with the instance, its parts on
\* it, and the arguments (which the processor has given to the attribute
\* parts); an instance made without one has had no call and has the
\* processor null.
C14_ProcessorCalledOnce ==
    \A i \in 1..Len(instances) :
        IF instances[i].processor = NoProcessor THEN InvocationsOf(i) = <<>>
        ELSE /\ Len(InvocationsOf(i)) = 1
             /\ InvocationsOf(i)[1].processor = instances[i].processor
             /\ InvocationsOf(i)[1].parts = instances[i].parts
             /\ operations = 0 =>
                    \A k \in 1..Len(instances[i].parts) :
                        instances[i].parts[k].partType = ATTRIBUTE_PART =>
                            AttributePartValue(InstanceState(i), instances[i].parts[k])
                                = Characters(InvocationsOf(i)[1].processorArguments.str)

C14_Witness ==
    /\ Len(instances) = 2
    /\ instances[1].processor = NoProcessor
    /\ instances[2].processor # NoProcessor
    /\ Len(invocations) = 1
    /\ invocations[1].parts # <<>>

\* the part, its element and the instance of the last operation, after it
OperatedPart == instances[operation.instance].parts[operation.part]

OperatedElement == NodeById(TreeOf(instances[operation.instance].fragment), OperatedPart.element)

\* the attribute of the part was on its element when the last operation began
WasAttached ==
    hasAttribute(NodeById(operation.before.tree, OperatedPart.element), OperatedPart.attributeName)

C15_WitnessAbsent ==
    /\ operation.kind = "value"
    /\ operation.values[1].kind = "null"
    /\ ~WasAttached

\* the first two placeholders stand in the value of one attribute of one element
TwoInOneAttribute ==
    /\ PlaceholderCount = 2
    /\ PlaceholderContext(1) = "attribute"
    /\ PlaceholderContext(2) = "attribute"
    /\ TokenizerAt(1).attribute.name = TokenizerAt(2).attribute.name
    /\ Len(TokenizerAt(1).tokens) = Len(TokenizerAt(2).tokens)

\* C16: when two placeholders stand in the value of one attribute of one
\* element, the instance has two parts, and both are the one attribute part of
\* that attribute.
C16_OneAttributePartForBoth ==
    (status \in {"instantiated", "instantiateFailed"} /\ TwoInOneAttribute) =>
        /\ Len(parts) = 2
        /\ parts[1].partType = ATTRIBUTE_PART
        /\ parts[1].attributeName = TokenizerAt(1).attribute.name
        /\ parts[2] = parts[1]

\* C17: iterating the rootNodes of an instance gives the top-level nodes of
\* the instance as they are now, in sibling order.
C17_RootNodesAreLive ==
    \A i \in 1..Len(instances) :
        RootNodesEntries(instances[i].rootNodes)
            = [k \in 1..Len(ChildNodes(TreeOf(instances[i].fragment), ROOT)) |->
                   ChildNodes(TreeOf(instances[i].fragment), ROOT)[k].id]

\* a boundary of the node range was not in its parent when the last call began
BoundaryWasRemoved ==
    \/ parentNode(prevChildNodes, nodes.startingBoundary) = "null"
    \/ parentNode(prevChildNodes, nodes.endingBoundary) = "null"

\* C18: a call of replaceWith on a part with a boundary that a third party
\* removed from its parent throws the Error of the node range, whatever its
\* arguments, and has removed and inserted no node.
C18_RemovedBoundaryFailsFast ==
    (phase = "called" /\ BoundaryWasRemoved) =>
        /\ error = "Error"
        /\ \A i \in 1..Len(ops) : ops[i].op = "createTextNode"
        /\ childNodes = prevChildNodes

\* C19: createDynamicTemplate called with no fragment fails at once with the
\* error of the missing fragments: nothing is scanned or parsed and no
\* template is returned.
C19_EmptySequenceRejected ==
    (htmlFragments = <<>> /\ status # "called") =>
        /\ status = "failed"
        /\ thrown = "NoFragments"
        /\ templates = <<>>
        /\ scannerRuns = 0
        /\ parserRuns = 0

C19_Witness == htmlFragments = <<>> /\ status = "failed" /\ thrown = "NoFragments"

\* the fragments as one string
CompleteMarkup == join(htmlFragments, <<>>)

TagOpens == {i \in 1..Len(CompleteMarkup) : CompleteMarkup[i] = "<"}

\* the name after the first "<" of the markup: the characters from the first
\* that is no blank up to the next blank, ":", "=", "/" or ">"
NameAfterFirstTagOpen ==
    LET starts == {i \in (Minimum(TagOpens) + 1)..Len(CompleteMarkup) :
                      CompleteMarkup[i] \notin Whitespace}
        ends == {i \in 1..Len(CompleteMarkup) :
                    /\ starts # {}
                    /\ i >= Minimum(starts)
                    /\ CompleteMarkup[i] \in Whitespace \cup {":", "=", "/", ">"}}
    IN  IF starts = {} THEN <<>>
        ELSE SubSeq(CompleteMarkup, Minimum(starts),
                    IF ends = {} THEN Len(CompleteMarkup) ELSE Minimum(ends) - 1)

\* C20: once the namespace is detected, markup without "<" is HTML, markup
\* whose first "<" is followed by a name of the SVG-only set is SVG, and
\* markup whose first "<" is followed by a name of neither set is HTML,
\* however the markup is cut into fragments; none of these is rejected for
\* its name.
C20_NamespaceFollowsFirstName ==
    (htmlFragments # <<>> /\ status # "called") =>
        /\ TagOpens = {} => (~isSvg /\ thrown # "InvalidMarkup")
        /\ (TagOpens # {} /\ NameAfterFirstTagOpen \in SVG_ONLY_ELEMENTS)
               => (isSvg /\ thrown # "InvalidMarkup")
        /\ (/\ TagOpens # {}
            /\ NameAfterFirstTagOpen # <<>>
            /\ NameAfterFirstTagOpen \notin SVG_ONLY_ELEMENTS \cup SHARED_ELEMENTS)
               => (~isSvg /\ thrown # "InvalidMarkup")

\* SVG markup whose first "<" is not in the first fragment
C20_Witness ==
    /\ status = "compiled"
    /\ isSvg
    /\ Len(htmlFragments) = 3
    /\ indexOf(htmlFragments[1], <<"<">>, 0) = -1
    /\ NameAfterFirstTagOpen = <<"g">>

\* C21: markup that has a "<" and no element name after the first one (a
\* ":", "=", "/" or ">" or the end of the markup follows it, blanks apart) is
\* rejected with the invalid-markup error, which names the position of that
\* "<"; nothing is scanned or parsed and no template is returned.
C21_MissingNameRejected ==
    (status # "called" /\ TagOpens # {} /\ NameAfterFirstTagOpen = <<>>) =>
        /\ status = "failed"
        /\ thrown = "InvalidMarkup"
        /\ thrownAt = Minimum(TagOpens) - 1
        /\ templates = <<>>
        /\ parsedTemplate = <<>>
        /\ scannerRuns = 0
        /\ parserRuns = 0

\* the first "<" is followed by "/", and it is not the first character
C21_Witness ==
    /\ status = "failed"
    /\ thrown = "InvalidMarkup"
    /\ thrownAt = 1
    /\ CompleteMarkup[3] = "/"

\* the step is a pass of the scanner that finds the end of the comment
LeavesComment == status = "scanning" /\ isInsideComment /\ ~isInsideComment' /\ thrown' = "none"

\* C22: the pass that finds "-->" leaves the comment and puts the cursor on
\* the character that follows the "-->", so that a "<" right after the
\* comment is found by the next pass.
C22_CommentEndResumesAfterIt ==
    [][LeavesComment =>
           /\ currentPosition' = indexOf(fragment, <<"-", "-", ">">>, currentPosition) + 3
           /\ ~isInsideElement']_vars

\* the step is a pass of the scanner that takes a ">" for the end of the tag
LeavesTag == status = "scanning" /\ ~isInsideComment /\ isInsideElement /\ ~isInsideElement'

\* the markup of the call up to the ">" that the pass is about to find, a
\* placeholder written as "x"; the markers put into the fragment so far stand
\* before the cursor and are left out
MarkupBeforeElementEnd ==
    LET given == htmlFragments[fragmentIndex + 1]
        elementEnd == indexOf(fragment, <<">">>, currentPosition)
        markup == join(SubSeq(htmlFragments, 1, fragmentIndex + 1), <<"x">>)
    IN  SubSeq(markup, 1, Len(markup) - Len(given) + elementEnd - (Len(fragment) - Len(given)))

\* C23: the ">" at which the scanner leaves a tag is never inside a quoted
\* attribute value.
C23_QuotedValueKeepsTagOpen ==
    [][LeavesTag =>
           Tokenize(MarkupBeforeElementEnd, 1, Len(MarkupBeforeElementEnd), TokenizerStart).state
               \notin {"AttributeValueDoubleQuoted", "AttributeValueSingleQuoted"}]_vars

\* the step is the pass of the scanner that ends a fragment inside a tag,
\* where a placeholder follows the fragment
PlaceholderInTag ==
    /\ status = "scanning"
    /\ ~isInsideComment
    /\ isInsideElement
    /\ indexOf(fragment, <<">">>, currentPosition) = -1
    /\ fragmentIndex < Len(htmlFragments) - 1

ValueSeparators == {i \in 1..Len(fragment) : fragment[i] = "="}

\* the text is a complete, closed attribute value: after blanks, a quote up
\* to the same quote, or characters up to a blank
IsClosedValue(text) ==
    LET valueStarts == {i \in 1..Len(text) : text[i] \notin Whitespace}
    IN  /\ valueStarts # {}
        /\ \E i \in (Minimum(valueStarts) + 1)..Len(text) :
              IF text[Minimum(valueStarts)] \in {"\"", "'"}
              THEN text[i] = text[Minimum(valueStarts)]
              ELSE text[i] \in Whitespace

\* the name that stands before the last "=" of the fragment: back from the
\* "=" over blanks, and then over the characters that are no blanks
NameBeforeSeparator ==
    LET nameEnds == {i \in 1..(Maximum(ValueSeparators) - 1) : fragment[i] \notin Whitespace}
        nameStarts == {i \in 1..Maximum(nameEnds) :
                          \A j \in i..Maximum(nameEnds) : fragment[j] \notin Whitespace}
    IN  IF nameEnds = {} THEN <<>>
        ELSE SubSeq(fragment, Minimum(nameStarts), Maximum(nameEnds))

\* C24: for a placeholder inside a tag the scanner queues exactly one token:
\* the empty token when the fragment has no "=" or the text after its last
\* "=" is a complete, closed value, and else the attribute name before that
\* "=".
C24_PlaceholderInTagClassified ==
    [][PlaceholderInTag =>
           currentDynamicAttributes' =
               Append(currentDynamicAttributes,
                      IF ValueSeparators = {} THEN <<>>
                      ELSE IF IsClosedValue(SubSeq(fragment, Maximum(ValueSeparators) + 1,
                                                   Len(fragment)))
                      THEN <<>>
                      ELSE NameBeforeSeparator)]_vars

\* the tokens with ";" between them
RECURSIVE SemicolonSeparated(_)
SemicolonSeparated(tokens) ==
    IF tokens = <<>> THEN <<>>
    ELSE IF Len(tokens) = 1 THEN tokens[1]
    ELSE tokens[1] \o <<";">> \o SemicolonSeparated(Tail(tokens))

AttributesMarkerName ==
    <<"d", "a", "t", "a", "-", "d", "t", "p", "p", "-", "a", "t", "t", "r", "i", "b", "u", "t", "e", "s">>

\* how often the text occurs in the string
Occurrences(s, text) == Cardinality({i \in 0..Len(s) : startsWith(s, text, i)})

\* C25: the pass that leaves a tag at a ">" with tokens queued puts one
\* attribute data-dtpp-attributes right before that ">", its value the queued
\* tokens in their order with ";" between them, and empties the queue; with
\* no token queued it leaves the fragment as it is.  The queue is empty when a
\* tag is entered, so that no token is written to a later tag.
C25_QueuedTokensWrittenAtTagEnd ==
    [][/\ LeavesTag =>
              LET elementEnd == indexOf(fragment, <<">">>, currentPosition)
              IN  /\ currentDynamicAttributes' = <<>>
                  /\ fragment' =
                         IF currentDynamicAttributes = <<>> THEN fragment
                         ELSE SubSeq(fragment, 1, elementEnd)
                                  \o <<" ">> \o AttributesMarkerName \o <<"=", "\"">>
                                  \o SemicolonSeparated(currentDynamicAttributes)
                                  \o <<"\"">> \o SubSeq(fragment, elementEnd + 1, Len(fragment))
                  /\ Occurrences(fragment', AttributesMarkerName)
                         = Occurrences(fragment, AttributesMarkerName)
                               + IF currentDynamicAttributes = <<>> THEN 0 ELSE 1
       /\ (status = "scanning" /\ ~isInsideElement /\ isInsideElement')
              => (currentDynamicAttributes = <<>> /\ currentDynamicAttributes' = <<>>)]_vars

\* a tag was left with two tokens queued, the second of them empty
C25_Witness ==
    /\ status = "scanning"
    /\ ~isInsideElement
    /\ indexOf(fragment, AttributesMarkerName \o <<"=", "\"", "c", ";", "\"", ">">>, 0) > -1

\* the step is the last pass of the scanner over the fragment under it
EndsFragment == status = "scanning" /\ Len(processedFragments') = Len(processedFragments) + 1

NodesMarkerName == <<"d", "a", "t", "a", "-", "d", "t", "p", "p", "-", "n", "o", "d", "e", "s">>

\* the empty marker element of the namespace
NodesMarkerElement ==
    IF isSvg
    THEN <<"<", "g", " ">> \o NodesMarkerName \o <<"=", "\"", "\"", ">", "<", "/", "g", ">">>
    ELSE <<"<", "s", "p", "a", "n", " ">> \o NodesMarkerName
             \o <<"=", "\"", "\"", ">", "<", "/", "s", "p", "a", "n", ">">>

\* C26: a fragment that ends with the scanner in text has the one marker
\* element of the namespace appended when a placeholder follows it and
\* nothing when it is the last fragment; a fragment that ends inside a tag has
\* nothing appended, a fragment does not end inside a comment, and no pass
\* but the last of a fragment adds a marker element.
C26_MarkerElementAtTextEnd ==
    [][/\ EndsFragment =>
              /\ ~isInsideComment
              /\ processedFragments'[Len(processedFragments')] =
                     IF ~isInsideElement /\ fragmentIndex < Len(htmlFragments) - 1
                     THEN fragment \o NodesMarkerElement
                     ELSE fragment
       /\ (status = "scanning" /\ ~EndsFragment) =>
              Occurrences(fragment', NodesMarkerName) = Occurrences(fragment, NodesMarkerName)]_vars

\* SVG markup of two fragments, the first of which ended in text
C26_Witness ==
    /\ status = "scanned"
    /\ isSvg
    /\ Len(processedFragments) = 2
    /\ Occurrences(processedFragments[1], <<"<", "g", " ">> \o NodesMarkerName) = 1
    /\ Occurrences(processedFragments[2], NodesMarkerName) = 0

\* C27: the scan of every fragment sequence ends: a pass of the scanner
\* ends the scan with the processed fragments of all fragments or with an
\* error, or moves the cursor forward in the fragment under it, never beyond
\* the character after its end, or goes on to the next fragment with the
\* cursor at its start.
C27_ScannerTerminates ==
    [][status = "scanning" =>
           /\ status' \in {"scanning", "scanned", "failed"}
           /\ status' = "scanned" => Len(processedFragments') = Len(htmlFragments)
           /\ status' = "scanning" =>
                  \/ /\ fragmentIndex' = fragmentIndex
                     /\ currentPosition' > currentPosition
                     /\ currentPosition' <= Len(fragment') + 1
                  \/ /\ fragmentIndex' = fragmentIndex + 1
                     /\ currentPosition' = 0
                     /\ Len(processedFragments') = fragmentIndex']_vars

\* three fragments were scanned, with a comment, a tag with attributes and a
\* placeholder in a tag among them
C27_Witness ==
    /\ status = "scanned"
    /\ Len(processedFragments) = 3
    /\ Occurrences(CompleteMarkup, <<"-", "-", ">">>) = 1
    /\ Occurrences(join(processedFragments, <<>>), AttributesMarkerName) = 1

\* the node of the span before the last call stands for a value of the call
IsKept(n) == \E i \in 1..Len(lastValues) : Materializes(n, lastValues[i])

\* the value of the last call has a node in the span before the call
WasInSpan(v) == \E i \in 1..Len(PrevSpan) : Materializes(PrevSpan[i], v)

\* no node of the span before the call stands for two values of the call, and
\* no value has two such nodes
OneNodePerValue ==
    /\ \A i, j \in 1..Len(lastValues) : \A k \in 1..Len(PrevSpan) :
          (Materializes(PrevSpan[k], lastValues[i]) /\ Materializes(PrevSpan[k], lastValues[j]))
              => i = j
    /\ \A i \in 1..Len(lastValues) : \A k, l \in 1..Len(PrevSpan) :
          (Materializes(PrevSpan[k], lastValues[i]) /\ Materializes(PrevSpan[l], lastValues[i]))
              => k = l

\* the nodes that the values keep in the span stand in the order of the values
KeptInOrder ==
    LET keptNodes == SelectSeq(PrevSpan, IsKept)
        keptValues == SelectSeq(lastValues, WasInSpan)
    IN  /\ Len(keptNodes) = Len(keptValues)
        /\ \A i \in 1..Len(keptNodes) : Materializes(keptNodes[i], keptValues[i])

OpsOn(name, n) == SelectSeq(ops, LAMBDA o : o.op = name /\ o.node = n)

FragmentNodes(tree) == Subtree(tree, ROOT)

IsMarkerElement(node) == node.nodeType = ELEMENT_NODE /\ hasAttribute(node, NodesMarkerName)

NodeRangeParts(i) ==
    SelectSeq(instances[i].parts, LAMBDA part : part.partType = NODE_RANGE_PART)

\* the place of the marker element among the marker elements of the content
MarkerNumber(content, id) ==
    Len(SelectSeq(SubSeq(content, 1, IndexOfNode(content, id)), IsMarkerElement))

\* the ids of the children that are expected in an instance where the content
\* of the template has the children from the k-th on: a marker element gives
\* way to the two sentinels of its node-range part
RECURSIVE SentinelsForMarkers(_, _, _, _)
SentinelsForMarkers(content, children, k, ranges) ==
    IF k > Len(children) THEN <<>>
    ELSE IF IsMarkerElement(children[k])
    THEN LET n == MarkerNumber(content, children[k].id)
         IN  IF n > Len(ranges) THEN <<DETACHED>>
             ELSE <<ranges[n].startingBoundary, ranges[n].endingBoundary>>
                      \o SentinelsForMarkers(content, children, k + 1, ranges)
    ELSE <<children[k].id>> \o SentinelsForMarkers(content, children, k + 1, ranges)

IsSentinel(i, node) ==
    \E k \in 1..Len(NodeRangeParts(i)) :
        node.id \in {NodeRangeParts(i)[k].startingBoundary, NodeRangeParts(i)[k].endingBoundary}

ParentsIn(content) ==
    {ROOT} \cup {content[k].id : k \in {j \in 1..Len(content) : content[j].nodeType = ELEMENT_NODE}}

\* C29: in every instance that instantiate made, no element of the instance
\* carries a data-dtpp-attributes or data-dtpp-nodes attribute; and, as long
\* as no processor has filled the instance, each marker element of the
\* template's content is out of its parent and the start and end sentinel of
\* its node-range part, two empty comments, the end right after the start,
\* stand in its parent at its place.
C29_MarkersReplacedBySentinels ==
    \A i \in 1..Len(instances) :
        LET made == TreeOf(instances[i].fragment)
            content == parsedTemplate
        IN  /\ \A k \in 1..Len(FragmentNodes(made)) :
                  /\ ~IsMarkerElement(FragmentNodes(made)[k])
                  /\ FragmentNodes(made)[k].nodeType = ELEMENT_NODE =>
                         ~hasAttribute(FragmentNodes(made)[k], AttributesMarkerName)
            /\ instances[i].processor = NoProcessor =>
                  /\ Len(NodeRangeParts(i)) = Len(SelectSeq(content, IsMarkerElement))
                  /\ \A parent \in ParentsIn(content) :
                        [k \in 1..Len(ChildNodes(made, parent)) |->
                                ChildNodes(made, parent)[k].id]
                            = SentinelsForMarkers(content, ChildNodes(content, parent), 1,
                                                  NodeRangeParts(i))
                  /\ \A k \in 1..Len(made) :
                        /\ IsSentinel(i, made[k]) =>
                              /\ made[k].nodeType = COMMENT_NODE
                              /\ made[k].data = <<>>
                        /\ IsMarkerElement(made[k]) => made[k].parent = DETACHED

\* an instance of a template with a marker element in an element that carries
\* a data-dtpp-attributes attribute and follows another node was made
C29_Witness ==
    /\ status = "instantiated"
    /\ instances[1].processor = NoProcessor
    /\ \E k \in 3..Len(parsedTemplate) :
          /\ IsMarkerElement(parsedTemplate[k])
          /\ parsedTemplate[k].parent # ROOT
          /\ hasAttribute(NodeById(parsedTemplate, parsedTemplate[k].parent),
                          AttributesMarkerName)

\* the first two placeholders stand in the start tag of one element, neither
\* of them in the value of an attribute
TwoInOneTag ==
    /\ PlaceholderCount = 2
    /\ PlaceholderContext(1) = "tag"
    /\ PlaceholderContext(2) = "tag"
    /\ Len(TokenizerAt(1).tokens) = Len(TokenizerAt(2).tokens)

\* the tokens of the attribute marker of the node of the template's content,
\* none where it has no such marker
MarkerTokens(node) ==
    IF node.nodeType = ELEMENT_NODE /\ hasAttribute(node, AttributesMarkerName)
    THEN split(getAttribute(node, AttributesMarkerName), <<";">>)
    ELSE <<>>

\* how many entries of the Part list belong to the first n nodes of the content
RECURSIVE EntriesOf(_, _)
EntriesOf(content, n) ==
    IF n = 0 THEN 0
    ELSE EntriesOf(content, n - 1) + Len(MarkerTokens(content[n]))
             + (IF IsMarkerElement(content[n]) THEN 1 ELSE 0)

ChildrenBetween(tree, range) ==
    LET p == parentNode(tree, range.startingBoundary)
    IN  IF p = "null" THEN <<>>
        ELSE SubSeq(tree[p], IndexOf(tree[p], range.startingBoundary) + 1,
                    IndexOf(tree[p], range.endingBoundary) - 1)

\* a node that only the code outside the engine puts into the tree
OutsideNodes == {outsideElement, outsideText}

\* C31: length, item and the iteration of the node range give the children
\* that stand between the boundaries now, whoever put them there; and a call
\* of replaceWith with strings and distinct nodes, on a span that the code
\* outside the engine has changed, returns with the span holding the values.
C31_SpanIsReadFromTree ==
    /\ NodeRangeEntries(childNodes, nodes) = ChildrenBetween(childNodes, nodes)
    /\ NodeRangeLength(childNodes, nodes) = Len(ChildrenBetween(childNodes, nodes))
    /\ \A i \in 0..(Len(ChildrenBetween(childNodes, nodes)) - 1) :
          NodeRangeItem(childNodes, nodes, i) = ChildrenBetween(childNodes, nodes)[i + 1]
    /\ (phase = "called" /\ StringsAndNodes(lastValues) /\ DistinctNodes(lastValues)) =>
          /\ error = "none"
          /\ SpanIs(lastValues)
          /\ \A i \in 1..Len(lastValues) :
                Materializes(ChildrenBetween(childNodes, nodes)[i], lastValues[i])

\* a call on a span that held one node, put there by the code outside the
\* engine, and the call took it out and put two nodes in
C31_Witness ==
    /\ Returned
    /\ Len(PrevSpan) = 1
    /\ PrevSpan[1] \in OutsideNodes
    /\ Len(lastValues) = 2
    /\ SpanIs(lastValues)
    /\ ~Includes(Span, PrevSpan[1])

\* the nodes of the instance were in the container when the last call started
WasMoved == parentNode(prevChildNodes, nodes.startingBoundary) = "container"

AroundSpan(tree) ==
    [p \in DOMAIN tree |->
        SelectSeq(tree[p], LAMBDA n : ~Includes(NodeRangeEntries(tree, nodes), n))]

\* every node among the values of the last call was in the span or in no tree
\* when the call started
ValuesFromSpan ==
    \A i \in 1..Len(lastValues) :
        lastValues[i].kind = "node" =>
            \/ parentNode(prevChildNodes, lastValues[i].node) = "null"
            \/ Includes(PrevSpan, lastValues[i].node)

\* C34: a call of replaceWith with strings and with nodes that were in the
\* span or in no tree leaves all but the span as it was: the children of every
\* parent that are not in the span, in their order, the siblings before the
\* start and after the end among them, and the span of the other node range.
C34_OnlyTheSpanChanges ==
    (phase = "called" /\ StringsAndNodes(lastValues) /\ ValuesFromSpan) =>
        /\ AroundSpan(childNodes) = AroundSpan(prevChildNodes)
        /\ NodeRangeEntries(childNodes, otherNodes) = NodeRangeEntries(prevChildNodes, otherNodes)
        /\ NodeRangeEntries(childNodes, otherNodes) = <<otherText>>
        /\ \A i \in 1..Len(Span) : Span[i] \notin {otherText, siblingText, siblingElement}

\* a call in the parent of the siblings and of the other node range, which
\* took a node out of the span and put in a new text equal to the text of the
\* other span
C34_Witness ==
    /\ Returned
    /\ ValuesFromSpan
    /\ childNodes["host"]
           = <<siblingElement, nodes.startingBoundary>> \o Span
                 \o <<nodes.endingBoundary, siblingText,
                      otherNodes.startingBoundary, otherText, otherNodes.endingBoundary>>
    /\ Len(OpsNamed("removeChild")) = 1
    /\ Len(OpsNamed("createTextNode")) = 1
    /\ Len(Span) = 2
    /\ Span[2].nodeType = TEXT_NODE
    /\ Span[2].nodeValue = otherText.nodeValue

\* C39: item(i) of the node range is the i-th node of the span, counted from
\* 0, for 0 <= i < length, and null for every other index, the index length
\* and the empty span included; it is never a boundary; and length is the
\* number of the entries.
C39_ItemIsNullOutsideSpan ==
    /\ NodeRangeLength(childNodes, nodes) = Len(NodeRangeEntries(childNodes, nodes))
    /\ \A i \in (0 - 1)..(Len(ChildrenBetween(childNodes, nodes)) + 1) :
          /\ NodeRangeItem(childNodes, nodes, i)
                 = IF 0 <= i /\ i < Len(ChildrenBetween(childNodes, nodes))
                   THEN ChildrenBetween(childNodes, nodes)[i + 1]
                   ELSE NULL
          /\ NodeRangeItem(childNodes, nodes, i)
                 \notin {nodes.startingBoundary, nodes.endingBoundary}

\* C33: a call of createDynamicTemplate with the empty string as its one
\* fragment fails with the error that asks for at least one html fragment
\* that is not an empty string.
C33_EmptyStringRejected ==
    (status # "called" /\ htmlFragments = <<<<>>>>) =>
        /\ status = "failed"
        /\ thrown = "NoFragments"
        /\ parsedTemplate = <<>>

\* the text of the tag that is open at the end of the fragment: the fragment
\* from its last "<" on, or all of it when the tag was opened in a fragment
\* before
OpenTagText ==
    IF lastIndexOf(fragment, <<"<">>) = -1 THEN fragment
    ELSE sliceFrom(fragment, lastIndexOf(fragment, <<"<">>))

\* C35: the token that the scanner queues for a placeholder inside a tag is
\* the token that it queues for a fragment that is the text of the open tag
\* alone: what stands in the fragment before the "<" of the tag does not
\* change it.
C35_OnlyTheOpenTagCounts ==
    [][PlaceholderInTag =>
           currentDynamicAttributes' =
               Append(currentDynamicAttributes, DynamicAttributeToken(OpenTagText))]_vars

\* C36: the scanner is never inside a tag and inside a comment at once, and
\* tokens are queued only while it is inside a tag.
C36_ScannerModes ==
    /\ ~(isInsideElement /\ isInsideComment)
    /\ ~isInsideElement => currentDynamicAttributes = <<>>
    /\ isInsideComment => currentDynamicAttributes = <<>>

\* the scanner has left a tag for which it had queued two empty tokens, and
\* has written them to the tag
C36_Witness ==
    /\ status = "scanning"
    /\ ~isInsideElement
    /\ ~isInsideComment
    /\ currentDynamicAttributes = <<>>
    /\ currentPosition > 0
    /\ Occurrences(fragment, AttributesMarkerName \o <<"=", "\"", ";", "\"">>) = 1
    /\ fragmentIndex = 2

\* the markup with its markers deleted, from the position on: every attribute
\* data-dtpp-attributes with the space before it, up to the quote that ends
\* its value, and every empty marker element data-dtpp-nodes
RECURSIVE WithoutMarkers(_, _)
WithoutMarkers(markup, position) ==
    LET attributeStart == <<" ">> \o AttributesMarkerName \o <<"=", "\"">>
        valueEnd == indexOf(markup, <<"\"">>, position + Len(attributeStart))
    IN  IF position >= Len(markup) THEN <<>>
        ELSE IF startsWith(markup, attributeStart, position) /\ valueEnd > -1
        THEN WithoutMarkers(markup, valueEnd + 1)
        ELSE IF startsWith(markup, nodesMarker(FALSE), position)
        THEN WithoutMarkers(markup, position + Len(nodesMarker(FALSE)))
        ELSE IF startsWith(markup, nodesMarker(TRUE), position)
        THEN WithoutMarkers(markup, position + Len(nodesMarker(TRUE)))
        ELSE <<markup[position + 1]>> \o WithoutMarkers(markup, position + 1)

\* the scanner has scanned all the fragments and has rejected none
Accepted == status \in {"scanned", "compiled", "instantiated"}

\* C37: when the scanner has accepted the fragments, the processed fragments
\* joined, with every attribute data-dtpp-attributes and every marker element
\* data-dtpp-nodes deleted, are the fragments joined.
C37_ScannerOnlyAddsMarkers ==
    Accepted =>
        WithoutMarkers(Concatenate(processedFragments, 1, Len(processedFragments)), 0)
            = Concatenate(htmlFragments, 1, Len(htmlFragments))

\* what a read of part.value gives on the instance f: this.attribute.value is
\* the string of the attribute node, on or off its element
ValueRead(f, part) == [kind |-> "string", text |-> AttributePartValue(f, part)]

\* C38: the value of every attribute part of every instance reads as null
\* when its element does not carry the attribute, as it does from the
\* assignment of null until the next assignment of a string, and reads as the
\* string of the attribute when its element carries it.
C38_ValueReadsAsElementHasIt ==
    status = "instantiated" =>
        \A i \in 1..Len(instances) : \A k \in 1..Len(instances[i].parts) :
            LET part == instances[i].parts[k]
                f == InstanceState(i)
                element == NodeById(f.tree, part.element)
            IN  part.partType = ATTRIBUTE_PART =>
                    IF hasAttribute(element, part.attributeName)
                    THEN ValueRead(f, part)
                             = [kind |-> "string",
                                text |-> getAttribute(element, part.attributeName)]
                    ELSE ValueRead(f, part).kind = "null"

====
